---------------------------- MODULE Spec2Model ----------------------------
(***************************************************************************)
(* A model of the streaming chat engine of rauhryan/hydra (docs/ts):       *)
(*   - parseNDJSON: the NDJSON decoder over a chunked byte source,         *)
(*   - useChatStream / consumeAsync: the chat event stream of one turn,    *)
(*   - executeToolCall and the all() batch of one turn's tool calls,       *)
(*   - the task tree of the structured-concurrency examples,               *)
(*   - useSpinner / withSpinner: the spinner resource,                     *)
(*   - the tool-calling chat loop of main,                                 *)
(*   - useStructuredChat: the stream of one structured turn,               *)
(*   - the request bodies the two streams send,                            *)
(*   - createToolRegistry and the lookup of executeToolCall.               *)
(* Each part has its own specification over its own variables; the other   *)
(* variables stay at their idle values.                                    *)
(***************************************************************************)
EXTENDS Integers, Sequences, FiniteSets, TLC

VARIABLES
  \* --- parseNDJSON (SpecNDJSON) ---
  input,        \* the bytes the source will deliver, in order
  chunks,       \* the same bytes as the sequence of chunks reader.read() returns
  readPos,      \* number of chunks already read from the reader
  buffer,       \* `buffer`: decoded text not yet split into lines
  decPending,   \* TextDecoder state: a lead byte waiting for its continuation
  ndState,      \* "open" | "ended" (returned done) | "failed" (JSON.parse threw)
  ndOut         \* the records yielded so far, in order

VARIABLES
  \* --- one chat turn: useChatStream consumed by consumeAsync (Spec) ---
  response,       \* what fetch resolves to: "ok" | "http_error" | "no_body"
  wire,           \* what the decoder yields for the response body, in order
  wirePos,        \* number of items the decoder has yielded so far
  readerDone,     \* the decoder has signalled end-of-data
  textBuffer,     \* useChatStream's accumulators
  thinkingBuffer,
  toolCalls,
  usage,
  pendingEvents,  \* queue of events to yield
  pc,             \* where consumeAsync stands
  delivered,      \* the ChatEvents next() has returned to the consumer
  results,        \* the ChatResults next() has returned to the consumer
  scope,          \* the scope that owns the stream: "running" | "exited"
  exitReason,     \* "none" | "return" | "fault" | "halt"
  ensures,        \* cleanups registered in the scope, in registration order
  readerAcquired, \* readable.getReader() was called
  cancelCount,    \* number of reader.cancel() calls
  aborted         \* the abort signal of useAbortSignal() has fired

VARIABLES
  \* --- one batch of tool calls: all(toolCalls.map(executeToolCall)) (SpecTools) ---
  calls,        \* result.toolCalls, in call order
  ops,          \* the operations handed to all(), in order
  batchPc,      \* "idle" | "spawning" | "waiting" | "done" | "failed"
  spawned,      \* number of operations all() has spawned
  taskState,    \* per task: "unspawned" | "spawned" | "suspended" | "resolved"
                \*           | "failed" | "halted"
  outcome,      \* per task: the Results its executeToolCall has returned
  handlerRuns,  \* per task: number of times a tool's execute() was invoked
  waitIdx,      \* the task all() awaits next
  toolResults   \* what all() returned

VARIABLES
  \* --- a tree of spawned tasks and its teardown (SpecScope) ---
  tStatus,      \* per task: "unspawned" | "running" | "exiting" | "done"
  tReason,      \* per task, why it exits: "none" | "return" | "fault" | "halt"
  tFault,       \* per task: the task whose throw is the fault it fails with
  ticks,        \* per task: number of steps of its body it has executed
  cleanupLog    \* the tasks whose ensure() cleanup has run, in order

VARIABLES
  \* --- one spinner: useSpinner and its caller (SpecSpinner) ---
  spMode,         \* the caller: "manual" (start/stop calls) | "with" (withSpinner)
  spPc,           \* "ready" | "stopping" | "w_start" | "w_op" | "w_done"
  animationTask,  \* `animationTask`: None, or Some(id of the task)
  alive,          \* ids of the animation tasks that are running
  spawnCount,     \* number of animation tasks spawned so far
  taskLabel,      \* the label each spawned animation writes
  frames,         \* the frames written to the terminal (their labels), in order
  clears,         \* number of terminal clears written
  spScope,        \* the scope that owns the spinner: "running", or how it
                  \* exited: "returned" | "failed" | "halted"
  spEnsures,      \* cleanups useSpinner registered in that scope
  spLog,          \* the start and stop calls made so far, in order
  wOutcome        \* how withSpinner's operation ended: "none" | "return" | "throw"

VARIABLES
  \* --- the tool-calling chat loop of main (SpecLoop) ---
  messages,     \* `messages`: the conversation history
  lpPc,         \* "prompt" | "turn" (top of the inner while) | "stream"
                \* | "tools" | "done"
  iterations,   \* `iterations` of the current user input
  requestLog,   \* per backend request issued: the history length it was sent with
  lpUsage,      \* the UsageState in UsageContext
  inputs,       \* number of user inputs taken so far
  lpResult,     \* `result` of the current turn: None, or Some(ChatResult)
  lpNotes,      \* what the loop reported: "max_iterations" | "error", in order
  lpAnimations, \* spinner animation tasks running in main's scope
  lpStreams     \* stream resources held in main's scope: [ended |-> those read
                \* to end-of-data, open |-> those in use or left by a fault]

VARIABLES
  \* --- the request body of a turn (SpecRequest) ---
  rqKind,       \* the stream that sends it: "chat" | "structured"
  rqMessages,   \* `messages`
  rqOptions,    \* `options`: None, or Some([tools |-> None or Some(registry)])
  rqBody        \* `request`: None until it is built, then Some(body)

VARIABLES
  \* --- a registry and one call against it (SpecRegistry) ---
  rgTools,      \* `tools`: the list the registry is created from
  rgRegistry,   \* None until created, then Some(registry.tools)
  rgCall,       \* the tool call
  rgResult,     \* None until executeToolCall has returned, then Some(Result)
  rgDescriptors \* None until toOllamaFormat() has been called, then Some(list)

VARIABLES
  \* --- structuredChat: the structured tool loop (SpecIterations) ---
  scMax,        \* options.maxIterations: None, or Some(n)
  scRegistry,   \* whether options.tools is given
  scPc,         \* "while" | "stream" | "tools" | "returned" | "failed"
  scIterations, \* `iterations`
  scRequests,   \* backend requests issued
  scMessages,   \* the roles of `messages`
  scReceived,   \* number of calls in `toolCallsReceived`
  scSpinning,   \* whether the spinner's animation runs
  scReturn      \* None, or Some(Result) once structuredChat has returned

ndVars == <<input, chunks, readPos, buffer, decPending, ndState, ndOut>>

streamVars == <<wirePos, readerDone, textBuffer, thinkingBuffer, toolCalls,
                usage, pendingEvents>>
scopeVars == <<scope, exitReason, ensures, readerAcquired, cancelCount, aborted>>
chatVars == <<response, wire, streamVars, pc, delivered, results, scopeVars>>

toolVars == <<calls, ops, batchPc, spawned, taskState, outcome, handlerRuns,
              waitIdx, toolResults>>

treeVars == <<tStatus, tReason, tFault, ticks, cleanupLog>>

spinVars == <<spMode, spPc, animationTask, alive, spawnCount, taskLabel, frames,
              clears, spScope, spEnsures, spLog, wOutcome>>

\* The variables of the parts that came after the first three.
loopVars == <<messages, lpPc, iterations, requestLog, lpUsage, inputs, lpResult, lpNotes,
              lpAnimations, lpStreams>>

reqVars == <<rqKind, rqMessages, rqOptions, rqBody>>

regVars == <<rgTools, rgRegistry, rgCall, rgResult, rgDescriptors>>
scVars == <<scMax, scRegistry, scPc, scIterations, scRequests, scMessages, scReceived,
            scSpinning, scReturn>>

restVars == <<treeVars, spinVars, loopVars, reqVars, regVars, scVars>>

\* What the actions of each of these parts leave alone.
treeOthers == <<ndVars, chatVars, toolVars, spinVars, loopVars, reqVars, regVars, scVars>>
spinOthers == <<ndVars, chatVars, toolVars, treeVars, loopVars, reqVars, regVars, scVars>>
loopOthers == <<ndVars, chatVars, toolVars, treeVars, spinVars, reqVars, regVars, scVars>>
reqOthers == <<ndVars, chatVars, toolVars, treeVars, spinVars, loopVars, regVars, scVars>>
regOthers == <<ndVars, chatVars, toolVars, treeVars, spinVars, loopVars, reqVars, scVars>>

vars == <<ndVars, chatVars, toolVars, restVars>>

\* The task tree before any program runs.
TreeIdle ==
  /\ tStatus = <<>>
  /\ tReason = <<>>
  /\ tFault = <<>>
  /\ ticks = <<>>
  /\ cleanupLog = <<>>

\* No spinner.
SpinIdle ==
  /\ spMode = "manual"
  /\ spPc = "ready"
  /\ animationTask = <<>>
  /\ alive = {}
  /\ spawnCount = 0
  /\ taskLabel = <<>>
  /\ frames = <<>>
  /\ clears = 0
  /\ spScope = "returned"
  /\ spEnsures = <<>>
  /\ spLog = <<>>
  /\ wOutcome = "none"

\* No chat loop.
LoopIdle ==
  /\ messages = <<>>
  /\ lpPc = "done"
  /\ iterations = 0
  /\ requestLog = <<>>
  /\ lpUsage = <<>>
  /\ inputs = 0
  /\ lpResult = <<>>
  /\ lpNotes = <<>>
  /\ lpAnimations = 0
  /\ lpStreams = [ended |-> 0, open |-> 0]

\* No request.
ReqIdle ==
  /\ rqKind = "chat"
  /\ rqMessages = <<>>
  /\ rqOptions = <<>>
  /\ rqBody = <<>>

\* No registry.
RegIdle ==
  /\ rgTools = <<>>
  /\ rgRegistry = <<>>
  /\ rgCall = <<>>
  /\ rgResult = <<>>
  /\ rgDescriptors = <<>>

\* No structuredChat call.
ScIdle ==
  /\ scMax = <<>>
  /\ scRegistry = FALSE
  /\ scPc = "returned"
  /\ scIterations = 0
  /\ scRequests = 0
  /\ scMessages = <<>>
  /\ scReceived = 0
  /\ scSpinning = FALSE
  /\ scReturn = <<>>

RestIdle == TreeIdle /\ SpinIdle /\ LoopIdle /\ ReqIdle /\ RegIdle /\ ScIdle

-----------------------------------------------------------------------------
(* Bounds *)
MaxBytes == 4
MaxRecords == 3
MaxCalls == 3

-----------------------------------------------------------------------------
(* Bytes and text.  Bytes: "1" a digit, "q" a double quote, "s" a space,   *)
(* "n" the line feed, "L" the lead byte of a two-byte UTF-8 sequence, "C"  *)
(* a continuation byte.  Text has the same ASCII characters plus "E" (the  *)
(* character L C encodes) and "R" (U+FFFD, what a malformed byte decodes   *)
(* to).                                                                    *)
Bytes == {"1", "q", "s", "n", "L", "C"}

RECURSIVE DecodeFrom(_, _, _, _)
DecodeFrom(bytes, i, pending, acc) ==
  IF i > Len(bytes) THEN [text |-> acc, pending |-> pending]
  ELSE LET b == bytes[i] IN
    IF pending
    THEN IF b = "C"
         THEN DecodeFrom(bytes, i + 1, FALSE, Append(acc, "E"))
         ELSE DecodeFrom(bytes, i, FALSE, Append(acc, "R"))
    ELSE IF b = "L" THEN DecodeFrom(bytes, i + 1, TRUE, acc)
         ELSE IF b = "C" THEN DecodeFrom(bytes, i + 1, FALSE, Append(acc, "R"))
         ELSE DecodeFrom(bytes, i + 1, FALSE, Append(acc, b))

\* Mutant: decoder.decode(value) without { stream: true }; every call decodes
\* its chunk alone and a sequence cut by the chunk boundary is malformed on
\* both sides.
DecodeNoStream(pending, bytes) ==
  LET d == DecodeFrom(bytes, 1, FALSE, <<>>) IN
  [text |-> IF d.pending THEN Append(d.text, "R") ELSE d.text, pending |-> FALSE]

\* decoder.decode(value, { stream: true }): an incomplete trailing sequence is
\* kept in the decoder and completed by the next call.
DecodeStream(pending, bytes) == DecodeFrom(bytes, 1, pending, <<>>)

\* buffer.indexOf('\n'), 0 standing for -1
IndexOfNewline(s) ==
  IF \E i \in 1..Len(s) : s[i] = "n"
  THEN CHOOSE i \in 1..Len(s) : s[i] = "n" /\ \A j \in 1..(i - 1) : s[j] # "n"
  ELSE 0

IsSpace(c) == c \in {"s", "n"}

\* String.prototype.trim
Trim(s) ==
  IF \A i \in 1..Len(s) : IsSpace(s[i]) THEN <<>>
  ELSE LET a == CHOOSE i \in 1..Len(s) : ~IsSpace(s[i]) /\ \A j \in 1..(i - 1) : IsSpace(s[j])
           b == CHOOSE i \in 1..Len(s) : ~IsSpace(s[i]) /\ \A j \in (i + 1)..Len(s) : IsSpace(s[j])
       IN SubSeq(s, a, b)

\* JSON.parse on a trimmed, non-empty line: a number (digits only) or a string
\* ("..." without an inner quote); anything else throws.
JSONIsNumber(line) == \A i \in 1..Len(line) : line[i] = "1"
JSONIsString(line) ==
  /\ Len(line) >= 2
  /\ line[1] = "q" /\ line[Len(line)] = "q"
  /\ \A i \in 2..(Len(line) - 1) : line[i] # "q"
JSONValid(line) == JSONIsNumber(line) \/ JSONIsString(line)
JSONParse(line) ==
  IF JSONIsNumber(line) THEN [type |-> "number", v |-> line]
  ELSE [type |-> "string", v |-> SubSeq(line, 2, Len(line) - 1)]

\* One call of parseNDJSON's next(): the while(true) loop run to its return
\* or throw.  Result: kind "value" | "done" | "throw" and the decoder's state
\* afterwards.
RECURSIVE NDJSONNext(_, _, _, _)

\* Mutant: the trailing line is yielded without `buffer = ''`.
NDJSONNextKeepsRemaining(buf, pend, pos, chs) ==
  LET newlineIndex == IndexOfNewline(buf) IN
  IF newlineIndex # 0
  THEN LET line == Trim(SubSeq(buf, 1, newlineIndex - 1))
           rest == SubSeq(buf, newlineIndex + 1, Len(buf))
       IN IF line # <<>>
          THEN IF JSONValid(line)
               THEN [kind |-> "value", value |-> JSONParse(line),
                     buffer |-> rest, pending |-> pend, pos |-> pos]
               ELSE [kind |-> "throw", value |-> line,
                     buffer |-> rest, pending |-> pend, pos |-> pos]
          ELSE NDJSONNext(rest, pend, pos, chs)
  ELSE IF pos >= Len(chs)
       THEN LET remaining == Trim(buf) IN
            IF remaining # <<>>
            THEN IF JSONValid(remaining)
                 THEN [kind |-> "value", value |-> JSONParse(remaining),
                       buffer |-> buf, pending |-> pend, pos |-> pos]
                 ELSE [kind |-> "throw", value |-> remaining,
                       buffer |-> buf, pending |-> pend, pos |-> pos]
            ELSE [kind |-> "done", value |-> <<>>,
                  buffer |-> buf, pending |-> pend, pos |-> pos]
       ELSE LET d == DecodeStream(pend, chs[pos + 1])
            IN NDJSONNext(buf \o d.text, d.pending, pos + 1, chs)

\* Mutant: a line that JSON.parse rejects is skipped like a blank line.
NDJSONNextSkipsBadLine(buf, pend, pos, chs) ==
  LET newlineIndex == IndexOfNewline(buf) IN
  IF newlineIndex # 0
  THEN LET line == Trim(SubSeq(buf, 1, newlineIndex - 1))
           rest == SubSeq(buf, newlineIndex + 1, Len(buf))
       IN IF line # <<>> /\ JSONValid(line)
          THEN [kind |-> "value", value |-> JSONParse(line),
                buffer |-> rest, pending |-> pend, pos |-> pos]
          ELSE NDJSONNext(rest, pend, pos, chs)
  ELSE IF pos >= Len(chs)
       THEN LET remaining == Trim(buf) IN
            IF remaining # <<>> /\ JSONValid(remaining)
            THEN [kind |-> "value", value |-> JSONParse(remaining),
                  buffer |-> <<>>, pending |-> pend, pos |-> pos]
            ELSE [kind |-> "done", value |-> <<>>,
                  buffer |-> buf, pending |-> pend, pos |-> pos]
       ELSE LET d == DecodeStream(pend, chs[pos + 1])
            IN NDJSONNext(buf \o d.text, d.pending, pos + 1, chs)

NDJSONNext(buf, pend, pos, chs) ==
  LET newlineIndex == IndexOfNewline(buf) IN
  IF newlineIndex # 0
  THEN LET line == Trim(SubSeq(buf, 1, newlineIndex - 1))
           rest == SubSeq(buf, newlineIndex + 1, Len(buf))
       IN IF line # <<>>
          THEN IF JSONValid(line)
               THEN [kind |-> "value", value |-> JSONParse(line),
                     buffer |-> rest, pending |-> pend, pos |-> pos]
               ELSE [kind |-> "throw", value |-> line,
                     buffer |-> rest, pending |-> pend, pos |-> pos]
          ELSE NDJSONNext(rest, pend, pos, chs)
  ELSE IF pos >= Len(chs)
       THEN \* reader.read() returned done
            LET remaining == Trim(buf) IN
            IF remaining # <<>>
            THEN IF JSONValid(remaining)
                 THEN [kind |-> "value", value |-> JSONParse(remaining),
                       buffer |-> <<>>, pending |-> pend, pos |-> pos]
                 ELSE [kind |-> "throw", value |-> remaining,
                       buffer |-> <<>>, pending |-> pend, pos |-> pos]
            ELSE [kind |-> "done", value |-> <<>>,
                  buffer |-> buf, pending |-> pend, pos |-> pos]
       ELSE LET d == DecodeStream(pend, chs[pos + 1])
            IN NDJSONNext(buf \o d.text, d.pending, pos + 1, chs)

\* The chunks of `bytes` cut after the positions in `cuts`.
RECURSIVE SplitAt(_, _, _)
SplitAt(bytes, cuts, from) ==
  IF from > Len(bytes) THEN <<>>
  ELSE LET later == {c \in cuts : c >= from}
           to == IF later = {} THEN Len(bytes)
                 ELSE CHOOSE c \in later : \A d \in later : c <= d
       IN <<SubSeq(bytes, from, to)>> \o SplitAt(bytes, cuts, to + 1)

ByteSeqs == UNION {[1..n -> Bytes] : n \in 0..MaxBytes}

NDStart ==
  /\ input \in ByteSeqs
  /\ \E cuts \in SUBSET (1..(MaxBytes - 1)) :
        /\ \A c \in cuts : c < Len(input)
        /\ chunks = SplitAt(input, cuts, 1)
  /\ readPos = 0
  /\ buffer = <<>>
  /\ decPending = FALSE
  /\ ndState = "open"
  /\ ndOut = <<>>

\* subscription.next() on the decoder
NDPull ==
  /\ ndState = "open"
  /\ LET r == NDJSONNext(buffer, decPending, readPos, chunks) IN
       /\ buffer' = r.buffer
       /\ decPending' = r.pending
       /\ readPos' = r.pos
       /\ ndState' = CASE r.kind = "value" -> "open"
                       [] r.kind = "done" -> "ended"
                       [] OTHER -> "failed"
       /\ ndOut' = IF r.kind = "value" THEN Append(ndOut, r.value) ELSE ndOut
  /\ UNCHANGED <<input, chunks, chatVars, toolVars, restVars>>

NDIdle ==
  /\ input = <<>>
  /\ chunks = <<>>
  /\ readPos = 0
  /\ buffer = <<>>
  /\ decPending = FALSE
  /\ ndState = "open"
  /\ ndOut = <<>>

\* The decoder run to its end on `chs`: the records it yields and how it ends.
RECURSIVE DrainFrom(_, _, _, _, _)
DrainFrom(buf, pend, pos, chs, acc) ==
  LET r == NDJSONNext(buf, pend, pos, chs) IN
  IF r.kind = "value"
  THEN DrainFrom(r.buffer, r.pending, r.pos, chs, Append(acc, r.value))
  ELSE [records |-> acc, end |-> IF r.kind = "done" THEN "ended" ELSE "failed"]

Drain(chs) == DrainFrom(<<>>, FALSE, 0, chs, <<>>)


-----------------------------------------------------------------------------
(* One chat turn.  Records (OllamaChatChunk): strings are strings, an      *)
(* absent optional field is the empty sequence and a present one a          *)
(* one-element sequence (tool_calls: the list itself in a one-element       *)
(* sequence, so that an empty list differs from an absent field).           *)

None == <<>>
Some(v) == <<v>>

Call1 == [id |-> "c1", name |-> "calculator"]
Call2 == [id |-> "c2", name |-> "get_weather"]

Chunk(content, thinking, tcalls, done, pcount, ecount, error) ==
  [content |-> content, thinking |-> thinking, tool_calls |-> tcalls,
   done |-> done, prompt_eval_count |-> pcount, eval_count |-> ecount,
   error |-> error]

\* The records a response is made of.
Chunks ==
  { Chunk("a", "", None, FALSE, None, None, ""),
    Chunk("b", "t", None, FALSE, None, None, ""),
    Chunk("", "", None, FALSE, None, None, ""),
    Chunk("", "t", Some(<<Call1>>), FALSE, None, None, ""),
    Chunk("a", "", Some(<<Call1, Call2>>), FALSE, Some(7), None, ""),
    Chunk("a", "t", Some(<<Call1>>), FALSE, None, None, ""),
    Chunk("", "", Some(<<>>), FALSE, None, None, ""),
    Chunk("", "", None, TRUE, Some(5), Some(2), ""),
    Chunk("b", "", None, TRUE, None, Some(3), ""),
    Chunk("a", "t", Some(<<Call2>>), FALSE, None, None, "e") }

\* What one pull of the decoder gives: a record, or a throw of JSON.parse.
WireItems ==
  {[kind |-> "value", value |-> c] : c \in Chunks}
    \cup {[kind |-> "throw", value |-> Chunk("", "", None, FALSE, None, None, "")]}

Wires == UNION {[1..n -> WireItems] : n \in 0..MaxRecords}

Event(type, content, tcalls) == [type |-> type, content |-> content, toolCalls |-> tcalls]

emptyUsage == [promptTokens |-> 0, completionTokens |-> 0, totalTokens |-> 0]

\* Mutant: an absent counter counts as -1.
OrMinusOne(opt) == IF opt = None THEN 0 - 1 ELSE opt[1]

\* x ?? 0
OrZero(opt) == IF opt = None THEN 0 ELSE opt[1]

usageFromChunk(chunk) ==
  [promptTokens |-> OrZero(chunk.prompt_eval_count),
   completionTokens |-> OrZero(chunk.eval_count),
   totalTokens |-> OrZero(chunk.prompt_eval_count) + OrZero(chunk.eval_count)]

\* The events one record enqueues, in the order of the three ifs.
TextEvent(chunk) ==
  IF chunk.content # "" THEN <<Event("text", chunk.content, <<>>)>> ELSE <<>>
ThinkingEvent(chunk) ==
  IF chunk.thinking # "" THEN <<Event("thinking", chunk.thinking, <<>>)>> ELSE <<>>
ToolCallsEvent(chunk) ==
  IF chunk.tool_calls # None THEN <<Event("tool_calls", "", chunk.tool_calls[1])>> ELSE <<>>

\* Mutant: the tool calls of a record are enqueued first.
ChunkEventsToolCallsFirst(chunk) ==
  ToolCallsEvent(chunk) \o TextEvent(chunk) \o ThinkingEvent(chunk)

ChunkEvents(chunk) == TextEvent(chunk) \o ThinkingEvent(chunk) \o ToolCallsEvent(chunk)

\* Mutant: the text event carries the whole buffer instead of the delta.
AccumulateFullBuffer(st, chunk) ==
  [st EXCEPT
     !.usage = IF chunk.done THEN usageFromChunk(chunk) ELSE @,
     !.text = IF chunk.content # "" THEN @ \o chunk.content ELSE @,
     !.thinking = IF chunk.thinking # "" THEN @ \o chunk.thinking ELSE @,
     !.toolCalls = IF chunk.tool_calls # None THEN @ \o chunk.tool_calls[1] ELSE @,
     !.pending = @ \o (IF chunk.content # ""
                       THEN <<Event("text", st.text \o chunk.content, <<>>)>>
                       ELSE <<>>)
                   \o ThinkingEvent(chunk) \o ToolCallsEvent(chunk)]

\* Mutant: a call whose id is already in the list is not added again.
AccumulateMergesById(st, chunk) ==
  [st EXCEPT
     !.usage = IF chunk.done THEN usageFromChunk(chunk) ELSE @,
     !.text = IF chunk.content # "" THEN @ \o chunk.content ELSE @,
     !.thinking = IF chunk.thinking # "" THEN @ \o chunk.thinking ELSE @,
     !.toolCalls = IF chunk.tool_calls # None
                   THEN @ \o SelectSeq(chunk.tool_calls[1],
                                       LAMBDA c : \A i \in 1..Len(st.toolCalls) :
                                                     st.toolCalls[i].id # c.id)
                   ELSE @,
     !.pending = @ \o ChunkEvents(chunk)]

\* Mutant: the usage is taken from every record, done or not.
AccumulateUsageAlways(st, chunk) ==
  [st EXCEPT
     !.usage = usageFromChunk(chunk),
     !.text = IF chunk.content # "" THEN @ \o chunk.content ELSE @,
     !.thinking = IF chunk.thinking # "" THEN @ \o chunk.thinking ELSE @,
     !.toolCalls = IF chunk.tool_calls # None THEN @ \o chunk.tool_calls[1] ELSE @,
     !.pending = @ \o ChunkEvents(chunk)]

\* The accumulators after a record without an error.
Accumulate(st, chunk) ==
  [st EXCEPT
     !.usage = IF chunk.done THEN usageFromChunk(chunk) ELSE @,
     !.text = IF chunk.content # "" THEN @ \o chunk.content ELSE @,
     !.thinking = IF chunk.thinking # "" THEN @ \o chunk.thinking ELSE @,
     !.toolCalls = IF chunk.tool_calls # None THEN @ \o chunk.tool_calls[1] ELSE @,
     !.pending = @ \o ChunkEvents(chunk)]

\* The terminal value of the stream.
ChatResult(st) ==
  [text |-> st.text,
   thinking |-> IF st.thinking # "" THEN Some(st.thinking) ELSE None,
   toolCalls |-> IF Len(st.toolCalls) > 0 THEN Some(st.toolCalls) ELSE None,
   usage |-> st.usage]

\* subscription.next() on the decoder, as useChatStream sees it: the next
\* record, a throw of JSON.parse, or done once the body is exhausted.
SubscriptionNext(pos, w) ==
  IF pos >= Len(w)
  THEN [kind |-> "done", value |-> Chunk("", "", None, FALSE, None, None, "")]
  ELSE w[pos + 1]

\* One call of useChatStream's next(), its recursion on a record without
\* events included.  st: the stream's state; w: what the decoder yields.
\* kind: "event" | "result" | "throw".
RECURSIVE ChatNext(_, _)

\* Mutant: a record with done = true and no event of its own ends the
\* stream, as useTextStream does.
ChatNextEarly(st, w) ==
  IF Len(st.pending) > 0
  THEN [kind |-> "event", event |-> Head(st.pending),
        st |-> [st EXCEPT !.pending = Tail(@)]]
  ELSE LET next == SubscriptionNext(st.pos, w) IN
  IF next.kind = "done"
  THEN [kind |-> "result", event |-> Event("", "", <<>>),
        st |-> [st EXCEPT !.readerDone = TRUE]]
  ELSE LET read == [st EXCEPT !.pos = @ + 1] IN
       IF next.kind = "throw" \/ next.value.error # ""
       THEN [kind |-> "throw", event |-> Event("", "", <<>>), st |-> read]
       ELSE LET acc == Accumulate(read, next.value) IN
            IF Len(acc.pending) > 0
            THEN [kind |-> "event", event |-> Head(acc.pending),
                  st |-> [acc EXCEPT !.pending = Tail(@)]]
            ELSE IF next.value.done
            THEN [kind |-> "result", event |-> Event("", "", <<>>), st |-> acc]
            ELSE ChatNext(acc, w)

\* Mutant: the error string of a record is not looked at.
ChatNextIgnoresError(st, w) ==
  IF Len(st.pending) > 0
  THEN [kind |-> "event", event |-> Head(st.pending),
        st |-> [st EXCEPT !.pending = Tail(@)]]
  ELSE LET next == SubscriptionNext(st.pos, w) IN
  IF next.kind = "done"
  THEN [kind |-> "result", event |-> Event("", "", <<>>),
        st |-> [st EXCEPT !.readerDone = TRUE]]
  ELSE LET read == [st EXCEPT !.pos = @ + 1] IN
       IF next.kind = "throw"
       THEN [kind |-> "throw", event |-> Event("", "", <<>>), st |-> read]
       ELSE LET acc == Accumulate(read, next.value) IN
            IF Len(acc.pending) > 0
            THEN [kind |-> "event", event |-> Head(acc.pending),
                  st |-> [acc EXCEPT !.pending = Tail(@)]]
            ELSE ChatNext(acc, w)

\* Mutant: the next record is read before the queue is looked at.
ChatNextReadsAhead(st, w) ==
  LET next == SubscriptionNext(st.pos, w) IN
  IF next.kind = "done"
  THEN IF Len(st.pending) > 0
       THEN [kind |-> "event", event |-> Head(st.pending),
             st |-> [st EXCEPT !.pending = Tail(@)]]
       ELSE [kind |-> "result", event |-> Event("", "", <<>>),
             st |-> [st EXCEPT !.readerDone = TRUE]]
  ELSE LET read == [st EXCEPT !.pos = @ + 1] IN
       IF next.kind = "throw" \/ next.value.error # ""
       THEN [kind |-> "throw", event |-> Event("", "", <<>>), st |-> read]
       ELSE LET acc == Accumulate(read, next.value) IN
            IF Len(acc.pending) > 0
            THEN [kind |-> "event", event |-> Head(acc.pending),
                  st |-> [acc EXCEPT !.pending = Tail(@)]]
            ELSE ChatNext(acc, w)

\* Mutant: a record without events ends the pull with an empty step.
ChatNextEmptyStep(st, w) ==
  IF Len(st.pending) > 0
  THEN [kind |-> "event", event |-> Head(st.pending),
        st |-> [st EXCEPT !.pending = Tail(@)]]
  ELSE LET next == SubscriptionNext(st.pos, w) IN
  IF next.kind = "done"
  THEN [kind |-> "result", event |-> Event("", "", <<>>),
        st |-> [st EXCEPT !.readerDone = TRUE]]
  ELSE LET read == [st EXCEPT !.pos = @ + 1] IN
       IF next.kind = "throw" \/ next.value.error # ""
       THEN [kind |-> "throw", event |-> Event("", "", <<>>), st |-> read]
       ELSE LET acc == Accumulate(read, next.value) IN
            IF Len(acc.pending) > 0
            THEN [kind |-> "event", event |-> Head(acc.pending),
                  st |-> [acc EXCEPT !.pending = Tail(@)]]
            ELSE [kind |-> "event", event |-> Event("", "", <<>>), st |-> acc]

\* Mutant: a pull after the end clears the text and the usage.
ChatNextResetsAfterEnd(st, w) ==
  IF Len(st.pending) > 0
  THEN [kind |-> "event", event |-> Head(st.pending),
        st |-> [st EXCEPT !.pending = Tail(@)]]
  ELSE LET next == SubscriptionNext(st.pos, w) IN
  IF next.kind = "done"
  THEN [kind |-> "result", event |-> Event("", "", <<>>),
        st |-> IF st.readerDone
               THEN [st EXCEPT !.text = "", !.usage = emptyUsage]
               ELSE [st EXCEPT !.readerDone = TRUE]]
  ELSE LET read == [st EXCEPT !.pos = @ + 1] IN
       IF next.kind = "throw" \/ next.value.error # ""
       THEN [kind |-> "throw", event |-> Event("", "", <<>>), st |-> read]
       ELSE LET acc == Accumulate(read, next.value) IN
            IF Len(acc.pending) > 0
            THEN [kind |-> "event", event |-> Head(acc.pending),
                  st |-> [acc EXCEPT !.pending = Tail(@)]]
            ELSE ChatNext(acc, w)

ChatNext(st, w) ==
  IF Len(st.pending) > 0
  THEN [kind |-> "event", event |-> Head(st.pending),
        st |-> [st EXCEPT !.pending = Tail(@)]]
  ELSE LET next == SubscriptionNext(st.pos, w) IN
  IF next.kind = "done"
  THEN [kind |-> "result", event |-> Event("", "", <<>>),
        st |-> [st EXCEPT !.readerDone = TRUE]]
  ELSE LET read == [st EXCEPT !.pos = @ + 1] IN
       IF next.kind = "throw" \/ next.value.error # ""
       THEN [kind |-> "throw", event |-> Event("", "", <<>>), st |-> read]
       ELSE LET acc == Accumulate(read, next.value) IN
            IF Len(acc.pending) > 0
            THEN [kind |-> "event", event |-> Head(acc.pending),
                  st |-> [acc EXCEPT !.pending = Tail(@)]]
            ELSE ChatNext(acc, w)

StreamState ==
  [pos |-> wirePos, readerDone |-> readerDone, text |-> textBuffer,
   thinking |-> thinkingBuffer, toolCalls |-> toolCalls, usage |-> usage,
   pending |-> pendingEvents]

SetStreamState(st) ==
  /\ wirePos' = st.pos
  /\ readerDone' = st.readerDone
  /\ textBuffer' = st.text
  /\ thinkingBuffer' = st.thinking
  /\ toolCalls' = st.toolCalls
  /\ usage' = st.usage
  /\ pendingEvents' = st.pending

ChatStart ==
  /\ response \in {"ok", "http_error", "no_body"}
  /\ wire \in Wires
  /\ (response # "ok" => wire = <<>>)
  /\ wirePos = 0
  /\ readerDone = FALSE
  /\ textBuffer = ""
  /\ thinkingBuffer = ""
  /\ toolCalls = <<>>
  /\ usage = emptyUsage
  /\ pendingEvents = <<>>
  /\ pc = "start"
  /\ delivered = <<>>
  /\ results = <<>>
  /\ scope = "running"
  /\ exitReason = "none"
  /\ ensures = <<>>
  /\ readerAcquired = FALSE
  /\ cancelCount = 0
  /\ aborted = FALSE

ChatIdle ==
  /\ response = "ok"
  /\ wire = <<>>
  /\ wirePos = 0
  /\ readerDone = FALSE
  /\ textBuffer = ""
  /\ thinkingBuffer = ""
  /\ toolCalls = <<>>
  /\ usage = emptyUsage
  /\ pendingEvents = <<>>
  /\ pc = "start"
  /\ delivered = <<>>
  /\ results = <<>>
  /\ scope = "running"
  /\ exitReason = "none"
  /\ ensures = <<>>
  /\ readerAcquired = FALSE
  /\ cancelCount = 0
  /\ aborted = FALSE

\* Mutant: parseNDJSON without its ensure().
NDJSONEnsuresNone == <<>>

\* The cleanups parseNDJSON registers in the owning scope.
NDJSONEnsures == <<"reader.cancel">>

\* Mutant: fetch without the scope's signal.
RequestNoSignal == <<>>

\* What useChatStream binds the request to: the scope's abort signal.
RequestSignal == <<"abort">>

\* `yield* stream` in consumeAsync, first half: the body of the useChatStream
\* resource up to the fetch, which is then in flight.
Request ==
  /\ scope = "running"
  /\ pc = "start"
  /\ ensures' = ensures \o RequestSignal
  /\ pc' = "fetch"
  /\ UNCHANGED <<response, wire, streamVars, delivered, results, scope,
                 exitReason, readerAcquired, cancelCount, aborted, ndVars, toolVars, restVars>>

\* Second half: fetch has resolved; the two response checks, then the body
\* of the parseNDJSON resource (getReader(), ensure(reader.cancel)) and the
\* accumulators.
Respond ==
  /\ scope = "running"
  /\ pc = "fetch"
  /\ IF response = "ok"
     THEN /\ readerAcquired' = TRUE
          /\ ensures' = ensures \o NDJSONEnsures
          /\ pc' = "pull"
     ELSE /\ readerAcquired' = FALSE
          /\ ensures' = ensures
          /\ pc' = "failed"
  /\ UNCHANGED <<response, wire, streamVars, delivered, results, scope,
                 exitReason, cancelCount, aborted, ndVars, toolVars, restVars>>

\* `next = yield* subscription.next()` in consumeAsync, and the test of
\* next.done that follows it.
Pull ==
  /\ scope = "running"
  /\ pc = "pull"
  /\ LET r == ChatNext(StreamState, wire) IN
       /\ SetStreamState(r.st)
       /\ delivered' = IF r.kind = "event" THEN Append(delivered, r.event) ELSE delivered
       /\ results' = IF r.kind = "result" THEN Append(results, ChatResult(r.st)) ELSE results
       /\ pc' = CASE r.kind = "event" -> "handle"
                  [] r.kind = "result" -> "returned"
                  [] OTHER -> "failed"
  /\ UNCHANGED <<response, wire, scopeVars, ndVars, toolVars, restVars>>

\* `yield* handler(next.value)` has returned.
HandlerDone ==
  /\ scope = "running"
  /\ pc = "handle"
  /\ pc' = "pull"
  /\ UNCHANGED <<response, wire, streamVars, delivered, results, scopeVars, ndVars, toolVars, restVars>>

\* The scope's teardown: its cleanups run in reverse order of registration.
RECURSIVE CancelsIn(_)
CancelsIn(cleanups) ==
  IF cleanups = <<>> THEN 0
  ELSE (IF Head(cleanups) = "reader.cancel" THEN 1 ELSE 0) + CancelsIn(Tail(cleanups))

Teardown(reason) ==
  /\ scope' = "exited"
  /\ exitReason' = reason
  /\ cancelCount' = cancelCount + CancelsIn(ensures)
  /\ aborted' = (aborted \/ \E i \in 1..Len(ensures) : ensures[i] = "abort")
  /\ ensures' = <<>>
  /\ UNCHANGED readerAcquired

\* consumeAsync returned the ChatResult and the owning scope's body ends.
ScopeReturn ==
  /\ scope = "running"
  /\ pc = "returned"
  /\ Teardown("return")
  /\ UNCHANGED <<response, wire, streamVars, pc, delivered, results, ndVars, toolVars, restVars>>

\* A throw (backend failure, malformed line, error record) leaves the scope.
ScopeFault ==
  /\ scope = "running"
  /\ pc = "failed"
  /\ Teardown("fault")
  /\ UNCHANGED <<response, wire, streamVars, pc, delivered, results, ndVars, toolVars, restVars>>

\* The scope is halted from outside while the consumer is suspended: in
\* fetch, in reader.read() or in the handler.
ScopeHalt ==
  /\ scope = "running"
  /\ pc \in {"fetch", "pull", "handle"}
  /\ (pc = "pull" => pendingEvents = <<>>)
  /\ Teardown("halt")
  /\ UNCHANGED <<response, wire, streamVars, pc, delivered, results, ndVars, toolVars, restVars>>

-----------------------------------------------------------------------------
(* Tool registry and executor. *)

\* Tool arguments, by what they do to a tool: "good" passes the schema and
\* the handler returns; "bad_value" passes the schema (a string where a
\* string is wanted) but is an expression the calculator rejects;
\* "bad_shape" fails the schema.
ArgKinds == {"good", "bad_value", "bad_shape"}

\* calculatorTool: no suspension, throws on an invalid expression.
calculatorTool ==
  [name |-> "calculator", suspends |-> FALSE, throwsOn |-> {"bad_value"}]

\* weatherTool: awaits a timer, then returns.
weatherTool ==
  [name |-> "get_weather", suspends |-> TRUE, throwsOn |-> {}]

RECURSIVE createToolRegistry(_)

\* Mutant: a name that is already in the map keeps its definition.
createToolRegistryFirstWins(tools) ==
  IF tools = <<>> THEN <<>>
  ELSE LET n == Len(tools)
           map == createToolRegistry(SubSeq(tools, 1, n - 1))
       IN [k \in DOMAIN map \cup {tools[n].name} |->
             IF k \in DOMAIN map THEN map[k] ELSE tools[n]]

createToolRegistry(tools) ==
  IF tools = <<>> THEN <<>>
  ELSE LET n == Len(tools)
           map == createToolRegistry(SubSeq(tools, 1, n - 1))
       IN [k \in DOMAIN map \cup {tools[n].name} |->
             IF k = tools[n].name THEN tools[n] ELSE map[k]]

registry == createToolRegistry(<<calculatorTool, weatherTool>>)

\* tool.parameters.safeParse(fn.arguments).success
SchemaOk(tool, args) == args # "bad_shape"

\* How tool.execute(parsed.data) ends.
HandlerOutcome(tool, args) == IF args \in tool.throwsOn THEN "throw" ELSE "return"

ok(value) == [ok |-> TRUE, value |-> Some(value), error |-> None]
err(error) == [ok |-> FALSE, value |-> None, error |-> Some(error)]

ToolResult(id, content) == [id |-> id, content |-> content, ok |-> TRUE]
ToolError(callId, toolName, message, phase) ==
  [callId |-> callId, toolName |-> toolName, message |-> message, phase |-> phase]

\* Mutant: parse() instead of safeParse(): a schema violation is thrown.
ExecuteStartParseThrows(reg, toolCall) ==
  IF toolCall.name \notin DOMAIN reg
  THEN [step |-> "return", invoked |-> FALSE,
        result |-> err(ToolError(toolCall.id, toolCall.name, "Unknown tool", "not_found"))]
  ELSE IF ~SchemaOk(reg[toolCall.name], toolCall.args)
  THEN [step |-> "throw", invoked |-> FALSE,
        result |-> err(ToolError(toolCall.id, toolCall.name, "Validation failed", "validation"))]
  ELSE [step |-> "invoke", invoked |-> TRUE,
        result |-> err(ToolError(toolCall.id, toolCall.name, "", "execution"))]

\* Mutant: the arguments are not validated before the handler runs.
ExecuteStartNoValidation(reg, toolCall) ==
  IF toolCall.name \notin DOMAIN reg
  THEN [step |-> "return", invoked |-> FALSE,
        result |-> err(ToolError(toolCall.id, toolCall.name, "Unknown tool", "not_found"))]
  ELSE [step |-> "invoke", invoked |-> TRUE,
        result |-> err(ToolError(toolCall.id, toolCall.name, "", "execution"))]

\* executeToolCall up to the call of tool.execute(): the lookup and the
\* validation.  step: "return" (with result) | "invoke" (the handler runs)
\* | "throw".
ExecuteStart(reg, toolCall) ==
  IF toolCall.name \notin DOMAIN reg
  THEN [step |-> "return", invoked |-> FALSE,
        result |-> err(ToolError(toolCall.id, toolCall.name, "Unknown tool", "not_found"))]
  ELSE IF ~SchemaOk(reg[toolCall.name], toolCall.args)
  THEN [step |-> "return", invoked |-> FALSE,
        result |-> err(ToolError(toolCall.id, toolCall.name, "Validation failed", "validation"))]
  ELSE [step |-> "invoke", invoked |-> TRUE,
        result |-> err(ToolError(toolCall.id, toolCall.name, "", "execution"))]

\* Mutant: no try/catch around tool.execute().
ExecuteFinishNoCatch(toolCall, handler) ==
  IF handler = "return"
  THEN [step |-> "return", result |-> ok(ToolResult(toolCall.id, "content"))]
  ELSE [step |-> "throw",
        result |-> err(ToolError(toolCall.id, toolCall.name, "fault", "execution"))]

\* Mutant: the failure names the tool where the call id belongs.
ExecuteFinishWrongId(toolCall, handler) ==
  IF handler = "return"
  THEN [step |-> "return", result |-> ok(ToolResult(toolCall.id, "content"))]
  ELSE [step |-> "return",
        result |-> err(ToolError(toolCall.name, toolCall.name, "fault", "execution"))]

\* executeToolCall from the end of tool.execute(): the try/catch.
ExecuteFinish(toolCall, handler) ==
  IF handler = "return"
  THEN [step |-> "return", result |-> ok(ToolResult(toolCall.id, "content"))]
  ELSE [step |-> "return",
        result |-> err(ToolError(toolCall.id, toolCall.name, "fault", "execution"))]

\* executeToolCall run until it returns, throws, or its handler suspends.
ExecuteRun(reg, toolCall) ==
  LET start == ExecuteStart(reg, toolCall) IN
  IF start.step # "invoke" THEN start
  ELSE IF reg[toolCall.name].suspends
  THEN [step |-> "suspend", invoked |-> TRUE, result |-> start.result]
  ELSE LET end == ExecuteFinish(toolCall, HandlerOutcome(reg[toolCall.name], toolCall.args))
       IN [step |-> end.step, invoked |-> TRUE, result |-> end.result]

Reverse(seq) == [i \in 1..Len(seq) |-> seq[Len(seq) + 1 - i]]

\* Mutant: the operations are built in the opposite order.
BatchOpsReversed(tcs) == Reverse(tcs)

\* result.toolCalls.map((tc) => executeToolCall(registry, tc)): operation i
\* executes call i.
BatchOps(tcs) == tcs

\* The tool calls the backend may ask for; the i-th call of a turn has the
\* id "i".
CallKinds ==
  { <<"calculator", "good">>, <<"calculator", "bad_value">>,
    <<"calculator", "bad_shape">>, <<"get_weather", "good">>,
    <<"get_weather", "bad_shape">>, <<"frobnicate", "good">> }

Batches ==
  UNION { { [i \in 1..n |-> [id |-> ToString(i), name |-> k[i][1], args |-> k[i][2]]] :
              k \in [1..n -> CallKinds] } : n \in 1..MaxCalls }

ToolStart ==
  /\ calls \in Batches
  /\ ops = <<>>
  /\ batchPc = "idle"
  /\ spawned = 0
  /\ taskState = [i \in 1..Len(calls) |-> "unspawned"]
  /\ outcome = [i \in 1..Len(calls) |-> <<>>]
  /\ handlerRuns = [i \in 1..Len(calls) |-> 0]
  /\ waitIdx = 1
  /\ toolResults = <<>>

ToolIdle ==
  /\ calls = <<>>
  /\ ops = <<>>
  /\ batchPc = "idle"
  /\ spawned = 0
  /\ taskState = <<>>
  /\ outcome = <<>>
  /\ handlerRuns = <<>>
  /\ waitIdx = 1
  /\ toolResults = <<>>

\* `yield* all(result.toolCalls.map(...))` is entered.
BatchStart ==
  /\ batchPc = "idle"
  /\ ops' = BatchOps(calls)
  /\ batchPc' = "spawning"
  /\ UNCHANGED <<calls, spawned, taskState, outcome, handlerRuns, waitIdx,
                 toolResults, ndVars, chatVars, restVars>>

\* all() spawns its next operation as a child task.
Spawn ==
  /\ batchPc = "spawning"
  /\ spawned < Len(ops)
  /\ spawned' = spawned + 1
  /\ taskState' = [taskState EXCEPT ![spawned + 1] = "spawned"]
  /\ batchPc' = IF spawned + 1 = Len(ops) THEN "waiting" ELSE "spawning"
  /\ UNCHANGED <<calls, ops, outcome, handlerRuns, waitIdx, toolResults,
                 ndVars, chatVars, restVars>>

\* A task's step has ended: with a Result (the task resolves), at a
\* suspension of its handler, or with a fault, which fails all() and halts
\* every task of the batch that has not resolved.
TaskStep(i, run, wasInvoked) ==
  /\ handlerRuns' = [handlerRuns EXCEPT ![i] = @ + (IF wasInvoked THEN 1 ELSE 0)]
  /\ IF run.step = "throw"
     THEN /\ batchPc' = "failed"
          /\ taskState' = [j \in DOMAIN taskState |->
                             IF j = i THEN "failed"
                             ELSE IF taskState[j] = "resolved" THEN "resolved"
                             ELSE "halted"]
          /\ UNCHANGED outcome
     ELSE /\ batchPc' = batchPc
          /\ taskState' = [taskState EXCEPT ![i] =
                             IF run.step = "suspend" THEN "suspended" ELSE "resolved"]
          /\ outcome' = [outcome EXCEPT ![i] =
                           IF run.step = "return" THEN Append(@, run.result) ELSE @]

\* A spawned task runs executeToolCall until it returns or suspends.
TaskRun(i) ==
  /\ batchPc \in {"spawning", "waiting"}
  /\ taskState[i] = "spawned"
  /\ LET run == ExecuteRun(registry, ops[i]) IN TaskStep(i, run, run.invoked)
  /\ UNCHANGED <<calls, ops, spawned, waitIdx, toolResults, ndVars, chatVars, restVars>>

\* The handler a task is suspended in finishes.
TaskResume(i) ==
  /\ batchPc \in {"spawning", "waiting"}
  /\ taskState[i] = "suspended"
  /\ TaskStep(i, ExecuteFinish(ops[i], HandlerOutcome(registry[ops[i].name], ops[i].args)),
               FALSE)
  /\ UNCHANGED <<calls, ops, spawned, waitIdx, toolResults, ndVars, chatVars, restVars>>

\* all() awaits its tasks in order and collects their values.
Join ==
  /\ batchPc = "waiting"
  /\ waitIdx <= Len(ops)
  /\ taskState[waitIdx] = "resolved"
  /\ toolResults' = Append(toolResults, outcome[waitIdx][1])
  /\ waitIdx' = waitIdx + 1
  /\ batchPc' = IF waitIdx = Len(ops) THEN "done" ELSE "waiting"
  /\ UNCHANGED <<calls, ops, spawned, taskState, outcome, handlerRuns,
                 ndVars, chatVars, restVars>>

ToolInit == NDIdle /\ ChatIdle /\ ToolStart /\ RestIdle

ToolNext ==
  \/ BatchStart
  \/ Spawn
  \/ \E i \in DOMAIN taskState : TaskRun(i)
  \/ \E i \in DOMAIN taskState : TaskResume(i)
  \/ Join

SpecTools == ToolInit /\ [][ToolNext]_vars

-----------------------------------------------------------------------------
Init == NDIdle /\ ChatStart /\ ToolIdle /\ RestIdle

Next == Request \/ Respond \/ Pull \/ HandlerDone \/ ScopeReturn \/ ScopeFault \/ ScopeHalt

Spec == Init /\ [][Next]_vars

NDInit == NDStart /\ ChatIdle /\ ToolIdle /\ RestIdle

NDNext == NDPull

SpecNDJSON == NDInit /\ [][NDNext]_vars

-----------------------------------------------------------------------------
(* The task tree of the structured-concurrency examples: main spawns        *)
(* child A, which spawns grandchildren A1 and A2, and child B              *)
(* (hierarchy.ts).  Every task registers a cleanup with ensure() when it   *)
(* starts (task() of wrong-way.ts); the cleanups are synchronous, so a     *)
(* teardown that has begun runs to its end before any task's body goes on. *)

MaxTicks == 2

Tasks == {"main", "A", "A1", "A2", "B"}

\* The children the body of a task creates, in creation order.
ChildrenOf(t) ==
  CASE t = "main" -> <<"A", "B">>
    [] t = "A" -> <<"A1", "A2">>
    [] OTHER -> <<>>

Creator(c) == CHOOSE p \in Tasks : \E i \in DOMAIN ChildrenOf(p) : ChildrenOf(p)[i] = c

\* Mutant: the children are created with run().
HowCreatedRun(c) == "run"

\* How the body creates a child: `yield* spawn(...)`.
HowCreated(c) == "spawn"

\* The scope a task lives in: its creator's for spawn(), the global scope
\* for run() and for main.
Owner(c) ==
  IF c = "main" THEN "global"
  ELSE IF HowCreated(c) = "spawn" THEN Creator(c) ELSE "global"

\* The children of p the teardown of p is responsible for that are alive.
LiveChildren(p) ==
  {i \in DOMAIN ChildrenOf(p) :
     /\ Owner(ChildrenOf(p)[i]) = p
     /\ tStatus[ChildrenOf(p)[i]] \in {"running", "exiting"}}

Max(S) == CHOOSE x \in S : \A y \in S : y <= x
Min(S) == CHOOSE x \in S : \A y \in S : x <= y

\* Mutant: children are halted in creation order.
NextToHaltOldest(p) == ChildrenOf(p)[Min(LiveChildren(p))]

\* The child a scope in teardown halts next: the one created last.
NextToHalt(p) == ChildrenOf(p)[Max(LiveChildren(p))]

\* Mutant: the fault of a child is dropped.
FaultTargetNone(c) == "global"

\* The scope a fault of task c fails.
FaultTarget(c) == Owner(c)

\* No teardown is under way.
Quiescent == \A t \in Tasks : tStatus[t] # "exiting"

TreeStart ==
  /\ tStatus = [t \in Tasks |-> IF t = "main" THEN "running" ELSE "unspawned"]
  /\ tReason = [t \in Tasks |-> "none"]
  /\ tFault = [t \in Tasks |-> "none"]
  /\ ticks = [t \in Tasks |-> 0]
  /\ cleanupLog = <<>>

Unspawned(p) == {i \in DOMAIN ChildrenOf(p) : tStatus[ChildrenOf(p)[i]] = "unspawned"}

\* The body of p creates its next child.
TaskSpawn(p) ==
  /\ Quiescent
  /\ tStatus[p] = "running"
  /\ Unspawned(p) # {}
  /\ tStatus' = [tStatus EXCEPT ![ChildrenOf(p)[Min(Unspawned(p))]] = "running"]
  /\ UNCHANGED <<tReason, tFault, ticks, cleanupLog, treeOthers>>

\* The body of t executes a step (a `console.log` between two sleeps).
TaskTick(t) ==
  /\ Quiescent
  /\ tStatus[t] = "running"
  /\ ticks[t] < MaxTicks
  /\ ticks' = [ticks EXCEPT ![t] = @ + 1]
  /\ UNCHANGED <<tStatus, tReason, tFault, cleanupLog, treeOthers>>

BeginExit(t, reason, fault) ==
  /\ tStatus' = [tStatus EXCEPT ![t] = "exiting"]
  /\ tReason' = [tReason EXCEPT ![t] = reason]
  /\ tFault' = [tFault EXCEPT ![t] = fault]

\* The body of t reaches its end.
TaskReturn(t) ==
  /\ Quiescent
  /\ tStatus[t] = "running"
  /\ Unspawned(t) = {}
  /\ BeginExit(t, "return", "none")
  /\ UNCHANGED <<ticks, cleanupLog, treeOthers>>

\* The body of t throws.
TaskThrow(t) ==
  /\ Quiescent
  /\ tStatus[t] = "running"
  /\ BeginExit(t, "fault", t)
  /\ UNCHANGED <<ticks, cleanupLog, treeOthers>>

\* main is halted from outside (an interrupt).
MainHalt ==
  /\ Quiescent
  /\ tStatus["main"] = "running"
  /\ BeginExit("main", "halt", "none")
  /\ UNCHANGED <<ticks, cleanupLog, treeOthers>>

\* A scope in teardown halts its next child.
HaltNext(p) ==
  /\ tStatus[p] = "exiting"
  /\ LiveChildren(p) # {}
  /\ tStatus[NextToHalt(p)] = "running"
  /\ BeginExit(NextToHalt(p), "halt", "none")
  /\ UNCHANGED <<ticks, cleanupLog, treeOthers>>

\* A scope in teardown whose children are gone runs its own cleanup and
\* completes its exit; a fault goes on to the scope it lives in.
TaskFinish(t) ==
  /\ tStatus[t] = "exiting"
  /\ LiveChildren(t) = {}
  /\ cleanupLog' = Append(cleanupLog, t)
  /\ LET p == FaultTarget(t) IN
     IF tReason[t] = "fault" /\ p # "global" /\ tStatus[p] = "running"
     THEN /\ tStatus' = [tStatus EXCEPT ![t] = "done", ![p] = "exiting"]
          /\ tReason' = [tReason EXCEPT ![p] = "fault"]
          /\ tFault' = [tFault EXCEPT ![p] = tFault[t]]
     ELSE /\ tStatus' = [tStatus EXCEPT ![t] = "done"]
          /\ UNCHANGED <<tReason, tFault>>
  /\ UNCHANGED <<ticks, treeOthers>>

TreeInit == NDIdle /\ ChatIdle /\ ToolIdle /\ TreeStart /\ SpinIdle /\ LoopIdle /\ ReqIdle /\ RegIdle /\ ScIdle

TreeNext ==
  \/ \E p \in Tasks : TaskSpawn(p)
  \/ \E t \in Tasks : TaskTick(t)
  \/ \E t \in Tasks : TaskReturn(t)
  \/ \E t \in Tasks : TaskThrow(t)
  \/ MainHalt
  \/ \E p \in Tasks : HaltNext(p)
  \/ \E t \in Tasks : TaskFinish(t)

SpecTree == TreeInit /\ [][TreeNext]_vars

-----------------------------------------------------------------------------
(* The spinner resource: useSpinner, withSpinner and a caller that either  *)
(* makes start and stop calls or runs one operation under withSpinner.     *)

MaxOps == 4
MaxFrames == 2

Labels == {"thinking", "loading"}

\* Mutant: start() does not look at animationTask.
AlreadyRunningNever(task) == FALSE

\* `if (animationTask) return;`
AlreadyRunning(task) == task # None

\* `yield* ensure(...)` in useSpinner.
SpinnerEnsures == <<"halt_and_clear">>

\* Mutant: withSpinner stops the spinner only when the operation returns.
AfterOpNoFinally(how) == IF how = "return" THEN "stop" ELSE "skip"

\* withSpinner's try/finally: whatever way the operation ends, stop() runs.
AfterOp(how) == "stop"

\* The body of start(label).
StartBody(label) ==
  /\ spLog' = Append(spLog, "start")
  /\ IF AlreadyRunning(animationTask)
     THEN UNCHANGED <<animationTask, alive, spawnCount, taskLabel>>
     ELSE /\ spawnCount' = spawnCount + 1
          /\ alive' = alive \cup {spawnCount + 1}
          /\ animationTask' = Some(spawnCount + 1)
          /\ taskLabel' = Append(taskLabel, label)

\* stop() up to the end of `yield* animationTask.halt()`; then is where the
\* caller goes on when there is nothing to stop.
StopBegin(then) ==
  /\ spLog' = Append(spLog, "stop")
  /\ IF animationTask # None
     THEN /\ alive' = alive \ {animationTask[1]}
          /\ spPc' = "stopping"
     ELSE /\ alive' = alive
          /\ spPc' = then

SpinStart ==
  /\ spMode \in {"manual", "with"}
  /\ spPc = IF spMode = "manual" THEN "ready" ELSE "w_start"
  /\ animationTask = None
  /\ alive = {}
  /\ spawnCount = 0
  /\ taskLabel = <<>>
  /\ frames = <<>>
  /\ clears = 0
  /\ spScope = "running"
  /\ spEnsures = SpinnerEnsures
  /\ spLog = <<>>
  /\ wOutcome = "none"

\* The caller calls spinner.start(label).
CallStart ==
  /\ spScope = "running"
  /\ spPc = "ready"
  /\ Len(spLog) < MaxOps
  /\ \E label \in Labels : StartBody(label)
  /\ UNCHANGED <<spMode, spPc, frames, clears, spScope, spEnsures, wOutcome, spinOthers>>

\* The caller calls spinner.stop().
CallStop ==
  /\ spScope = "running"
  /\ spPc = "ready"
  /\ Len(spLog) < MaxOps
  /\ StopBegin("ready")
  /\ UNCHANGED <<spMode, animationTask, spawnCount, taskLabel, frames, clears, spScope,
                 spEnsures, wOutcome, spinOthers>>

\* stop() after the halt: the clear and `animationTask = undefined`.
StopFinish ==
  /\ spScope = "running"
  /\ spPc = "stopping"
  /\ clears' = clears + 1
  /\ animationTask' = None
  /\ spPc' = IF spMode = "manual" THEN "ready" ELSE "w_done"
  /\ UNCHANGED <<spMode, alive, spawnCount, taskLabel, frames, spScope, spEnsures,
                 spLog, wOutcome, spinOthers>>

\* withSpinner: `yield* spinner.start(label)`.
WithStart ==
  /\ spScope = "running"
  /\ spPc = "w_start"
  /\ \E label \in Labels : StartBody(label)
  /\ spPc' = "w_op"
  /\ UNCHANGED <<spMode, frames, clears, spScope, spEnsures, wOutcome, spinOthers>>

\* withSpinner: the operation returns or throws, and the finally block is
\* entered.
WithOpEnds ==
  /\ spScope = "running"
  /\ spPc = "w_op"
  /\ \E how \in {"return", "throw"} :
       /\ wOutcome' = how
       /\ IF AfterOp(how) = "stop"
          THEN StopBegin("w_done")
          ELSE spPc' = "w_done" /\ UNCHANGED <<alive, spLog>>
  /\ UNCHANGED <<spMode, animationTask, spawnCount, taskLabel, frames, clears, spScope,
                 spEnsures, spinOthers>>

\* The interval fires in a running animation: one frame is written.
AnimTick ==
  /\ Len(frames) < MaxFrames
  /\ \E id \in alive : frames' = Append(frames, taskLabel[id])
  /\ UNCHANGED <<spMode, spPc, animationTask, alive, spawnCount, taskLabel, clears,
                 spScope, spEnsures, spLog, wOutcome, spinOthers>>

\* The scope that owns the spinner exits: a halt can come at any point, a
\* return or a fault of the caller between two calls.  An operation under
\* withSpinner that is halted leaves through the finally block; the tasks
\* of the scope are halted and the registered cleanups run.
SpinScopeExit ==
  /\ spScope = "running"
  /\ \E reason \in {"returned", "failed", "halted"} :
       /\ reason # "halted" => spPc \in {"ready", "w_done"}
       /\ spScope' = reason
  /\ LET viaFinally == spPc = "w_op" /\ AfterOp("halt") = "stop" /\ animationTask # None
         cleared == viaFinally \/ (animationTask # None /\ spEnsures # <<>>)
     IN /\ clears' = IF cleared THEN clears + 1 ELSE clears
        /\ animationTask' = IF viaFinally THEN None ELSE animationTask
        /\ spLog' = IF spPc = "w_op" /\ AfterOp("halt") = "stop"
                    THEN Append(spLog, "stop") ELSE spLog
  /\ alive' = {}
  /\ UNCHANGED <<spMode, spPc, spawnCount, taskLabel, frames, spEnsures, wOutcome,
                 spinOthers>>

SpinInit == NDIdle /\ ChatIdle /\ ToolIdle /\ TreeIdle /\ SpinStart /\ LoopIdle /\ ReqIdle /\ RegIdle /\ ScIdle

SpinNext ==
  \/ CallStart
  \/ CallStop
  \/ StopFinish
  \/ WithStart
  \/ WithOpEnds
  \/ AnimTick
  \/ SpinScopeExit

SpecSpinner == SpinInit /\ [][SpinNext]_vars

-----------------------------------------------------------------------------
(* The tool-calling chat loop of main: for each user input, backend turns   *)
(* until one has no tool calls or maxIterations turns were made.            *)

MaxInputs == 2
MaxRequests == 11
MaxEvents == 2

maxIterations == 10

\* searchTool: awaits a timer, then returns.
searchTool ==
  [name |-> "search", suspends |-> TRUE, throwsOn |-> {}]

mainRegistry == createToolRegistry(<<weatherTool, calculatorTool, searchTool>>)

\* The Result executeToolCall ends with, its handler having run to its end.
ExecuteResult(reg, toolCall) ==
  LET start == ExecuteStart(reg, toolCall) IN
  IF start.step # "invoke" THEN start.result
  ELSE ExecuteFinish(toolCall, HandlerOutcome(reg[toolCall.name], toolCall.args)).result

\* What `yield* all(result.toolCalls.map(...))` returns.
AllResults(reg, tcs) == [i \in 1..Len(tcs) |-> ExecuteResult(reg, BatchOps(tcs)[i])]

Msg(role, content, tcalls, callId) ==
  [role |-> role, content |-> content, tool_calls |-> tcalls, tool_call_id |-> callId]

\* Mutant: a failed call leaves no tool message.
ToolMessagesOkOnly(trs) ==
  LET oks == SelectSeq(trs, LAMBDA r : r.ok)
  IN [i \in 1..Len(oks) |-> Msg("tool", oks[i].value[1].content, None, Some(oks[i].value[1].id))]

\* The tool messages the loop appends for the results of a batch.
ToolMessages(trs) ==
  [i \in 1..Len(trs) |->
     IF trs[i].ok
     THEN Msg("tool", trs[i].value[1].content, None, Some(trs[i].value[1].id))
     ELSE Msg("tool", "Error: " \o trs[i].error[1].message, None,
              Some(trs[i].error[1].callId))]

TCall(id, name, args) == [id |-> id, name |-> name, args |-> args]

\* The ChatResults a turn may end with: a final text, a batch whose calls
\* fail in each phase, a batch with a slow call that succeeds.
TurnResults ==
  { [text |-> "a", toolCalls |-> None,
     usage |-> usageFromChunk(Chunk("", "", None, TRUE, None, Some(3), ""))],
    [text |-> "", toolCalls |-> Some(<<TCall("c1", "calculator", "bad_value"),
                                        TCall("c2", "frobnicate", "good"),
                                        TCall("c3", "get_weather", "bad_shape")>>),
     usage |-> usageFromChunk(Chunk("", "", None, TRUE, Some(5), Some(2), ""))],
    [text |-> "b", toolCalls |-> Some(<<TCall("c1", "search", "good"),
                                         TCall("c2", "calculator", "good")>>),
     usage |-> emptyUsage] }

\* `result.toolCalls?.length`
HasToolCalls(r) == r.toolCalls # None /\ Len(r.toolCalls[1]) > 0

\* The UsageState after a turn with the given usage.
UsageAfterTotalOfTurn(prev, u) ==
  [current |-> u,
   cumulative |-> [promptTokens |-> prev.cumulative.promptTokens + u.promptTokens,
                   completionTokens |-> prev.cumulative.completionTokens + u.completionTokens,
                   totalTokens |-> u.totalTokens],
   contextLimit |-> prev.contextLimit,
   history |-> Append(prev.history, u)]

UsageAfter(prev, u) ==
  [current |-> u,
   cumulative |-> [promptTokens |-> prev.cumulative.promptTokens + u.promptTokens,
                   completionTokens |-> prev.cumulative.completionTokens + u.completionTokens,
                   totalTokens |-> prev.cumulative.totalTokens + u.totalTokens],
   contextLimit |-> prev.contextLimit,
   history |-> Append(prev.history, u)]

\* What is reported after the inner while.
AfterWhile(n) == IF n >= maxIterations THEN <<"max_iterations">> ELSE <<>>

LoopStart ==
  /\ messages = <<Msg("system", "s", None, None)>>
  /\ lpPc = "prompt"
  /\ iterations = 0
  /\ requestLog = <<>>
  /\ lpUsage = [current |-> emptyUsage, cumulative |-> emptyUsage,
                contextLimit |-> 8192, history |-> <<>>]
  /\ inputs = 0
  /\ lpResult = None
  /\ lpNotes = <<>>
  /\ lpAnimations = 0
  /\ lpStreams = [ended |-> 0, open |-> 0]

\* The prompt returns: the input is closed or "exit", and main's scope
\* exits, halting and releasing what it still owns; or it is a text, which
\* joins the history.  (An empty input changes nothing.)
UserInput ==
  /\ lpPc = "prompt"
  /\ \E kind \in {"exit", "text"} :
       IF kind = "exit"
       THEN /\ lpPc' = "done"
            /\ lpAnimations' = 0
            /\ lpStreams' = [ended |-> 0, open |-> 0]
            /\ UNCHANGED <<messages, iterations, inputs>>
       ELSE /\ inputs < MaxInputs
            /\ inputs' = inputs + 1
            /\ messages' = Append(messages, Msg("user", "u", None, None))
            /\ iterations' = 0
            /\ lpPc' = "turn"
            /\ UNCHANGED <<lpAnimations, lpStreams>>
  /\ UNCHANGED <<requestLog, lpUsage, lpResult, lpNotes, loopOthers>>

\* One pass of the inner while begins: a spinner and a chat stream are
\* created in main's scope and the backend request is issued.
TurnRequest ==
  /\ lpPc = "turn"
  /\ iterations < maxIterations
  /\ Len(requestLog) < MaxRequests
  /\ iterations' = iterations + 1
  /\ requestLog' = Append(requestLog, Len(messages))
  /\ lpStreams' = [lpStreams EXCEPT !.open = @ + 1]
  /\ lpPc' = "stream"
  /\ UNCHANGED <<messages, lpUsage, inputs, lpResult, lpNotes, lpAnimations, loopOthers>>

\* consumeAsync returns the turn's ChatResult, its stream read to
\* end-of-data: spinner.stop() halts the turn's animation if it runs, the
\* usage is updated; a result without tool calls ends the inner while.
TurnResult ==
  /\ lpPc = "stream"
  /\ lpStreams' = [ended |-> lpStreams.ended + 1, open |-> lpStreams.open - 1]
  /\ UNCHANGED lpAnimations
  /\ \E r \in TurnResults :
       /\ lpResult' = Some(r)
       /\ lpUsage' = UsageAfter(lpUsage, r.usage)
       /\ IF HasToolCalls(r)
          THEN /\ lpPc' = "tools"
               /\ UNCHANGED <<messages, lpNotes>>
          ELSE /\ messages' = Append(messages, Msg("assistant", r.text, None, None))
               /\ lpNotes' = lpNotes \o AfterWhile(iterations)
               /\ lpPc' = "prompt"
  /\ UNCHANGED <<iterations, requestLog, inputs, loopOthers>>

\* The event types the handler may have seen before a turn fails.
EventsBeforeFault ==
  UNION {[1..n -> {"text", "thinking", "tool_calls"}] : n \in 0..MaxEvents}

\* The handler of main: a thinking event starts the turn's spinner, a text
\* or tool_calls event stops it.  1 if its animation runs after the events.
SpinnerAfter(evs) ==
  IF evs # <<>> /\ evs[Len(evs)] = "thinking" THEN 1 ELSE 0

TurnFailRecordsUsage ==
  /\ lpPc = "stream"
  /\ \E evs \in EventsBeforeFault : lpAnimations' = lpAnimations + SpinnerAfter(evs)
  /\ UNCHANGED lpStreams
  /\ lpNotes' = Append(lpNotes, "error")
  /\ messages' = IF messages[Len(messages)].role = "user"
                 THEN SubSeq(messages, 1, Len(messages) - 1)
                 ELSE messages
  /\ lpPc' = "prompt"
  /\ lpUsage' = UsageAfter(lpUsage, emptyUsage)
  /\ UNCHANGED <<iterations, requestLog, inputs, lpResult, loopOthers>>

\* The turn fails after the handler has seen some events: the catch
\* reports it and drops a trailing user message.  It stops no spinner and
\* releases no stream: the animation the handler left running and the
\* turn's stream stay in main's scope.
TurnFail ==
  /\ lpPc = "stream"
  /\ \E evs \in EventsBeforeFault : lpAnimations' = lpAnimations + SpinnerAfter(evs)
  /\ UNCHANGED lpStreams
  /\ lpNotes' = Append(lpNotes, "error")
  /\ messages' = IF messages[Len(messages)].role = "user"
                 THEN SubSeq(messages, 1, Len(messages) - 1)
                 ELSE messages
  /\ lpPc' = "prompt"
  /\ UNCHANGED <<iterations, requestLog, lpUsage, inputs, lpResult, loopOthers>>

\* The batch of the turn's tool calls has run: the assistant message and
\* the tool messages join the history, and the inner while goes round.
ToolBatch ==
  /\ lpPc = "tools"
  /\ LET r == lpResult[1]
         trs == AllResults(mainRegistry, r.toolCalls[1])
     IN messages' = Append(messages, Msg("assistant", r.text, r.toolCalls, None))
                      \o ToolMessages(trs)
  /\ IF iterations < maxIterations
     THEN lpPc' = "turn" /\ UNCHANGED lpNotes
     ELSE lpPc' = "prompt" /\ lpNotes' = lpNotes \o AfterWhile(iterations)
  /\ UNCHANGED <<iterations, requestLog, lpUsage, inputs, lpResult, lpAnimations,
                 lpStreams, loopOthers>>

LoopInit == NDIdle /\ ChatIdle /\ ToolIdle /\ TreeIdle /\ SpinIdle /\ LoopStart /\ ReqIdle /\ RegIdle /\ ScIdle

LoopNext == UserInput \/ TurnRequest \/ TurnResult \/ TurnFail \/ ToolBatch

SpecLoop == LoopInit /\ [][LoopNext]_vars

-----------------------------------------------------------------------------
(* One structured turn: useStructuredChat consumed by consumeAsync.  The    *)
(* request, the response checks, the decoder and the scope are those of    *)
(* useChatStream (the same statements), so the turn runs over the chat     *)
(* turn's variables; `results` holds the Result the stream ends with.      *)

\* JSON.parse(textBuffer) for the texts a response can add up to: Some of
\* what was parsed, or None when JSON.parse throws.
JSONParseText(text) ==
  CASE text = "{}" -> Some("object")
    [] text = "{k}" -> Some("object_k")
    [] text = "1" -> Some("number")
    [] OTHER -> None

\* schema.safeParse(parsed).success, for a schema that wants an object with
\* the key k.
SchemaSafeParse(parsed) == parsed = "object_k"

\* The records a structured response is made of: pieces of JSON text.
StructChunks ==
  { Chunk("{", "", None, FALSE, None, None, ""),
    Chunk("k", "t", None, FALSE, None, None, ""),
    Chunk("}", "", None, TRUE, Some(5), Some(2), ""),
    Chunk("{k}", "", None, FALSE, None, None, ""),
    Chunk("{}", "", None, FALSE, None, None, ""),
    Chunk("1", "", None, TRUE, None, Some(3), ""),
    Chunk("", "", Some(<<Call1>>), FALSE, None, None, ""),
    Chunk("{k}", "t", None, FALSE, None, None, "e") }

StructWireItems ==
  {[kind |-> "value", value |-> c] : c \in StructChunks}
    \cup {[kind |-> "throw", value |-> Chunk("", "", None, FALSE, None, None, "")]}

StructWires == UNION {[1..n -> StructWireItems] : n \in 0..MaxRecords}

\* Mutant: the content of a record is emitted as a text event, as
\* useChatStream does.
StructAccumulateEmitsText(st, chunk) == Accumulate(st, chunk)

\* The accumulators after a record without an error: the text is kept, not
\* emitted.
StructAccumulate(st, chunk) ==
  [st EXCEPT
     !.usage = IF chunk.done THEN usageFromChunk(chunk) ELSE @,
     !.text = IF chunk.content # "" THEN @ \o chunk.content ELSE @,
     !.thinking = IF chunk.thinking # "" THEN @ \o chunk.thinking ELSE @,
     !.toolCalls = IF chunk.tool_calls # None THEN @ \o chunk.tool_calls[1] ELSE @,
     !.pending = @ \o ThinkingEvent(chunk) \o ToolCallsEvent(chunk)]

ParseError(phase, message, raw) == [phase |-> phase, message |-> message, raw |-> raw]

StructuredResult(st, data) ==
  [data |-> data, raw |-> st.text,
   thinking |-> IF st.thinking # "" THEN Some(st.thinking) ELSE None,
   usage |-> st.usage]

\* Mutant: JSON.parse and schema.parse without try/catch and safeParse.
StructEndThrows(st) ==
  IF Len(st.toolCalls) > 0
  THEN [kind |-> "result", value |-> err(ParseError("json", "Tool calls pending", st.text))]
  ELSE LET parsed == JSONParseText(st.text) IN
       IF parsed = None \/ ~SchemaSafeParse(parsed[1])
       THEN [kind |-> "throw", value |-> err(ParseError("json", "JSON parse failed", st.text))]
       ELSE [kind |-> "result", value |-> ok(StructuredResult(st, parsed[1]))]

\* What next() gives at the decoder's end-of-data.
StructEnd(st) ==
  IF Len(st.toolCalls) > 0
  THEN [kind |-> "result", value |-> err(ParseError("json", "Tool calls pending", st.text))]
  ELSE LET parsed == JSONParseText(st.text) IN
       IF parsed = None
       THEN [kind |-> "result", value |-> err(ParseError("json", "JSON parse failed", st.text))]
       ELSE IF ~SchemaSafeParse(parsed[1])
       THEN [kind |-> "result", value |-> err(ParseError("validation", "invalid", st.text))]
       ELSE [kind |-> "result", value |-> ok(StructuredResult(st, parsed[1]))]

\* One call of useStructuredChat's next().  kind: "event" | "result" |
\* "throw".
RECURSIVE StructuredNext(_, _)
StructuredNext(st, w) ==
  IF Len(st.pending) > 0
  THEN [kind |-> "event", event |-> Head(st.pending), value |-> err(ParseError("", "", "")),
        st |-> [st EXCEPT !.pending = Tail(@)]]
  ELSE LET next == SubscriptionNext(st.pos, w) IN
  IF next.kind = "done"
  THEN LET end == StructEnd(st) IN
       [kind |-> end.kind, event |-> Event("", "", <<>>), value |-> end.value,
        st |-> [st EXCEPT !.readerDone = TRUE]]
  ELSE LET read == [st EXCEPT !.pos = @ + 1] IN
       IF next.kind = "throw" \/ next.value.error # ""
       THEN [kind |-> "throw", event |-> Event("", "", <<>>),
             value |-> err(ParseError("", "", "")), st |-> read]
       ELSE LET acc == StructAccumulate(read, next.value) IN
            IF Len(acc.pending) > 0
            THEN [kind |-> "event", event |-> Head(acc.pending),
                  value |-> err(ParseError("", "", "")),
                  st |-> [acc EXCEPT !.pending = Tail(@)]]
            ELSE StructuredNext(acc, w)

StructStart ==
  /\ response \in {"ok", "http_error", "no_body"}
  /\ wire \in StructWires
  /\ (response # "ok" => wire = <<>>)
  /\ wirePos = 0
  /\ readerDone = FALSE
  /\ textBuffer = ""
  /\ thinkingBuffer = ""
  /\ toolCalls = <<>>
  /\ usage = emptyUsage
  /\ pendingEvents = <<>>
  /\ pc = "start"
  /\ delivered = <<>>
  /\ results = <<>>
  /\ scope = "running"
  /\ exitReason = "none"
  /\ ensures = <<>>
  /\ readerAcquired = FALSE
  /\ cancelCount = 0
  /\ aborted = FALSE

\* `next = yield* subscription.next()` on the structured stream.
StructPull ==
  /\ scope = "running"
  /\ pc = "pull"
  /\ LET r == StructuredNext(StreamState, wire) IN
       /\ SetStreamState(r.st)
       /\ delivered' = IF r.kind = "event" THEN Append(delivered, r.event) ELSE delivered
       /\ results' = IF r.kind = "result" THEN Append(results, r.value) ELSE results
       /\ pc' = CASE r.kind = "event" -> "handle"
                  [] r.kind = "result" -> "returned"
                  [] OTHER -> "failed"
  /\ UNCHANGED <<response, wire, scopeVars, ndVars, toolVars, restVars>>

StructInit == NDIdle /\ StructStart /\ ToolIdle /\ RestIdle

StructStep ==
  Request \/ Respond \/ StructPull \/ HandlerDone \/ ScopeReturn \/ ScopeFault \/ ScopeHalt

SpecStructured == StructInit /\ [][StructStep]_vars

-----------------------------------------------------------------------------
(* One text turn: useTextStream consumed by its caller.  The request, the  *)
(* response checks, the decoder and the scope are those of useChatStream,  *)
(* so the turn runs over the chat turn's variables; `delivered` holds the  *)
(* string chunks and `results` the value the stream ends with.             *)

\* `{ text: buffer, usage: finalUsage }`
TextResult(st) == [text |-> st.text, usage |-> st.usage]

\* One call of useTextStream's next().  kind: "chunk" | "result" | "throw".
TextNext(st, w) ==
  LET next == SubscriptionNext(st.pos, w) IN
  IF next.kind = "done"
  THEN [kind |-> "result", chunk |-> "", st |-> [st EXCEPT !.readerDone = TRUE]]
  ELSE LET read == [st EXCEPT !.pos = @ + 1] IN
       IF next.kind = "throw" \/ next.value.error # ""
       THEN [kind |-> "throw", chunk |-> "", st |-> read]
       ELSE LET content == next.value.content
                acc == [read EXCEPT !.text = @ \o content] IN
            IF next.value.done
            THEN LET fin == [acc EXCEPT !.usage = usageFromChunk(next.value)] IN
                 IF content # ""
                 THEN [kind |-> "chunk", chunk |-> content, st |-> fin]
                 ELSE [kind |-> "result", chunk |-> "", st |-> fin]
            ELSE [kind |-> "chunk", chunk |-> content, st |-> acc]

\* `next = yield* subscription.next()` on the text stream.
TextPull ==
  /\ scope = "running"
  /\ pc = "pull"
  /\ LET r == TextNext(StreamState, wire) IN
       /\ SetStreamState(r.st)
       /\ delivered' = IF r.kind = "chunk" THEN Append(delivered, r.chunk) ELSE delivered
       /\ results' = IF r.kind = "result" THEN Append(results, TextResult(r.st)) ELSE results
       /\ pc' = CASE r.kind = "chunk" -> "handle"
                  [] r.kind = "result" -> "returned"
                  [] OTHER -> "failed"
  /\ UNCHANGED <<response, wire, scopeVars, ndVars, toolVars, restVars>>

TextInit == NDIdle /\ ChatStart /\ ToolIdle /\ RestIdle

TextStep ==
  Request \/ Respond \/ TextPull \/ HandlerDone \/ ScopeReturn \/ ScopeFault \/ ScopeHalt

SpecText == TextInit /\ [][TextStep]_vars

-----------------------------------------------------------------------------
(* Pulls after the end: a consumer that calls next() again on a chat       *)
(* stream that has returned its ChatResult, or on a decoder that has       *)
(* signalled end-of-data.                                                  *)

MaxPulls == 2

\* subscription.next() on a chat stream that has returned its result.
PullAgain ==
  /\ scope = "running"
  /\ pc = "returned"
  /\ Len(results) <= MaxPulls
  /\ LET r == ChatNext(StreamState, wire) IN
       /\ SetStreamState(r.st)
       /\ delivered' = IF r.kind = "event" THEN Append(delivered, r.event) ELSE delivered
       /\ results' = IF r.kind = "result" THEN Append(results, ChatResult(r.st)) ELSE results
       /\ pc' = CASE r.kind = "event" -> "handle"
                  [] r.kind = "result" -> "returned"
                  [] OTHER -> "failed"
  /\ UNCHANGED <<response, wire, scopeVars, ndVars, toolVars, restVars>>

\* subscription.next() on a decoder that has returned done.
NDPullAgain ==
  /\ ndState = "ended"
  /\ LET r == NDJSONNext(buffer, decPending, readPos, chunks) IN
       /\ buffer' = r.buffer
       /\ decPending' = r.pending
       /\ readPos' = r.pos
       /\ ndState' = CASE r.kind = "value" -> "open"
                       [] r.kind = "done" -> "ended"
                       [] OTHER -> "failed"
       /\ ndOut' = IF r.kind = "value" THEN Append(ndOut, r.value) ELSE ndOut
  /\ UNCHANGED <<input, chunks, chatVars, toolVars, restVars>>

\* A chat turn, or a decoder on its own.
AgainInit ==
  /\ ToolIdle /\ RestIdle
  /\ \/ NDIdle /\ ChatStart
     \/ NDStart /\ ChatIdle

\* The chat turn runs where no decoder was given bytes, the decoder where
\* the chat turn has not begun.
AgainNext ==
  \/ (input = <<>> /\ Request)
  \/ (input = <<>> /\ Respond)
  \/ (input = <<>> /\ Pull)
  \/ (input = <<>> /\ HandlerDone)
  \/ (input = <<>> /\ ScopeReturn)
  \/ (input = <<>> /\ ScopeFault)
  \/ (input = <<>> /\ ScopeHalt)
  \/ (input = <<>> /\ PullAgain)
  \/ (pc = "start" /\ NDPull)
  \/ (pc = "start" /\ NDPullAgain)

SpecAgain == AgainInit /\ [][AgainNext]_vars

-----------------------------------------------------------------------------
(* The request body: `request` of useChatStream and of useStructuredChat,  *)
(* for the messages and options they are called with.                      *)

MaxTools == 2

\* A registry as created from a list of tools: the map by name, and the
\* list itself, which toOllamaFormat maps over.
Registry(tools) == [tools |-> createToolRegistry(tools), source |-> tools]

\* `tools.map(...)`: a descriptor per element of the list, with the name of
\* the element and (`of`) the definition whose description and parameters
\* it carries.
toOllamaFormat(reg) ==
  [i \in 1..Len(reg.source) |->
     [type |-> "function", name |-> reg.source[i].name, of |-> reg.source[i]]]

\* `...(options?.tools && { tools: options.tools.toOllamaFormat() })`: a
\* registry is an object, so it is truthy whatever it holds.
ToolsField(options) ==
  IF options # None /\ options[1].tools # None
  THEN Some(toOllamaFormat(options[1].tools[1]))
  ELSE None

\* `request` of useChatStream.
ChatRequest(msgs, options) ==
  [model |-> "m", messages |-> msgs, stream |-> TRUE,
   format |-> None, tools |-> ToolsField(options)]

\* `request` of useStructuredChat.
StructuredRequest(msgs, options) ==
  [model |-> "m", messages |-> msgs, stream |-> TRUE,
   format |-> Some("schema"), tools |-> ToolsField(options)]

ToolLists ==
  UNION {[1..n -> {weatherTool, calculatorTool, searchTool}] : n \in 0..MaxTools}

Histories ==
  { <<Msg("user", "u", None, None)>>,
    <<Msg("system", "s", None, None), Msg("user", "u", None, None)>>,
    <<Msg("user", "u", None, None), Msg("assistant", "a", None, None),
      Msg("user", "u", None, None)>> }

ReqStart ==
  /\ rqKind \in {"chat", "structured"}
  /\ rqMessages \in Histories
  /\ rqOptions \in {None, Some([tools |-> None])}
                     \cup {Some([tools |-> Some(Registry(l))]) : l \in ToolLists}
  /\ rqBody = None

\* The stream builds its request.
BuildRequest ==
  /\ rqBody = None
  /\ rqMessages # <<>>
  /\ rqBody' = Some(IF rqKind = "chat"
                    THEN ChatRequest(rqMessages, rqOptions)
                    ELSE StructuredRequest(rqMessages, rqOptions))
  /\ UNCHANGED <<rqKind, rqMessages, rqOptions, reqOthers>>

ReqInit == NDIdle /\ ChatIdle /\ ToolIdle /\ TreeIdle /\ SpinIdle /\ LoopIdle /\ ReqStart /\ RegIdle /\ ScIdle

ReqNext == BuildRequest

SpecRequest == ReqInit /\ [][ReqNext]_vars

-----------------------------------------------------------------------------
(* A registry created from a list of definitions, names repeated or not,   *)
(* and one tool call executed against it.                                  *)

MaxDefs == 3

\* Definitions under the names of calculatorTool and weatherTool that
\* behave differently from them.
calculatorLenient ==
  [name |-> "calculator", suspends |-> FALSE, throwsOn |-> {}]
weatherFailing ==
  [name |-> "get_weather", suspends |-> FALSE, throwsOn |-> {"good"}]

ToolDefs == {calculatorTool, weatherTool, calculatorLenient, weatherFailing}

DefLists == UNION {[1..n -> ToolDefs] : n \in 0..MaxDefs}

\* executeToolCall run to its return, a suspension of the handler included.
ExecuteToEnd(reg, toolCall) ==
  LET run == ExecuteRun(reg, toolCall) IN
  IF run.step = "suspend"
  THEN ExecuteFinish(toolCall, HandlerOutcome(reg[toolCall.name], toolCall.args)).result
  ELSE run.result

RegStart ==
  /\ rgTools \in DefLists
  /\ rgCall \in {[id |-> "1", name |-> k[1], args |-> k[2]] : k \in CallKinds}
  /\ rgRegistry = None
  /\ rgResult = None
  /\ rgDescriptors = None

\* createToolRegistry(tools)
RegCreate ==
  /\ rgRegistry = None
  /\ rgCall # <<>>
  /\ rgRegistry' = Some(createToolRegistry(rgTools))
  /\ UNCHANGED <<rgTools, rgCall, rgResult, rgDescriptors, regOthers>>

\* executeToolCall(registry, toolCall)
RegExecute ==
  /\ rgRegistry # None
  /\ rgResult = None
  /\ rgResult' = Some(ExecuteToEnd(rgRegistry[1], rgCall))
  /\ UNCHANGED <<rgTools, rgCall, rgRegistry, rgDescriptors, regOthers>>

\* registry.toOllamaFormat()
RegDescribe ==
  /\ rgRegistry # None
  /\ rgDescriptors = None
  /\ rgDescriptors' = Some(toOllamaFormat(Registry(rgTools)))
  /\ UNCHANGED <<rgTools, rgCall, rgRegistry, rgResult, regOthers>>

RegInit ==
  /\ NDIdle /\ ChatIdle /\ ToolIdle /\ TreeIdle /\ SpinIdle /\ LoopIdle /\ ReqIdle
  /\ RegStart /\ ScIdle

RegNext == RegCreate \/ RegExecute \/ RegDescribe

SpecRegistry == RegInit /\ [][RegNext]_vars

-----------------------------------------------------------------------------
(* structuredChat: structured turns with the tool loop around them, and    *)
(* the two loops under fair scheduling.                                    *)

MaxOption == 2

\* `options?.maxIterations ?? 10`
SCMaxIterations(opt) == IF opt = None THEN 10 ELSE opt[1]

\* What a structured turn ends with: a value, a failure of the text, or
\* tool calls received (and the stream's 'Tool calls pending').
StreamOutcomes == {"ok", "json", "validation", "pending"}

\* `streamResult` for an outcome.
StreamResult(out) ==
  CASE out = "ok" -> ok("data")
    [] out = "pending" -> err(ParseError("json", "Tool calls pending", ""))
    [] OTHER -> err(ParseError(out, "invalid", ""))

MaxIterationsReached == err(ParseError("json", "Max iterations reached", ""))

ScStart ==
  /\ scMax \in {None} \cup {Some(n) : n \in 0..MaxOption}
  /\ scRegistry \in BOOLEAN
  /\ scPc = "while"
  /\ scIterations = 0
  /\ scRequests = 0
  /\ scMessages = <<"user">>
  /\ scReceived = 0
  /\ scSpinning = FALSE
  /\ scReturn = None

\* Mutant: the while has no test of the iteration count.
SCTurnBeginUnguarded ==
  /\ scPc = "while"
  /\ scIterations < 12
  /\ scIterations' = scIterations + 1
  /\ scReceived' = 0
  /\ scSpinning' = TRUE
  /\ scRequests' = scRequests + 1
  /\ scPc' = "stream"
  /\ UNCHANGED <<scMax, scRegistry, scMessages, scReturn, ndVars, chatVars, toolVars,
                 treeVars, spinVars, loopVars, reqVars, regVars>>

\* A pass of the while begins: the spinner starts and the request of the
\* structured stream is issued.
SCTurnBegin ==
  /\ scPc = "while"
  /\ scIterations < SCMaxIterations(scMax)
  /\ scIterations' = scIterations + 1
  /\ scReceived' = 0
  /\ scSpinning' = TRUE
  /\ scRequests' = scRequests + 1
  /\ scPc' = "stream"
  /\ UNCHANGED <<scMax, scRegistry, scMessages, scReturn, ndVars, chatVars, toolVars,
                 treeVars, spinVars, loopVars, reqVars, regVars>>

\* The while ends on its test: the failure after the loop is returned.
SCExhausted ==
  /\ scPc = "while"
  /\ ~(scIterations < SCMaxIterations(scMax))
  /\ scReturn' = Some(MaxIterationsReached)
  /\ scPc' = "returned"
  /\ UNCHANGED <<scMax, scRegistry, scIterations, scRequests, scMessages, scReceived,
                 scSpinning, ndVars, chatVars, toolVars, treeVars, spinVars, loopVars,
                 reqVars, regVars>>

\* The stream is drained: the spinner stops; tool calls with a registry
\* go to the batch, anything else returns the stream's result.
SCStreamEnds ==
  /\ scPc = "stream"
  /\ scSpinning' = FALSE
  /\ \E out \in StreamOutcomes, n \in 1..MaxCalls :
       /\ scReceived' = IF out = "pending" THEN n ELSE 0
       /\ IF out = "pending" /\ scRegistry
          THEN scPc' = "tools" /\ UNCHANGED scReturn
          ELSE scPc' = "returned" /\ scReturn' = Some(StreamResult(out))
  /\ UNCHANGED <<scMax, scRegistry, scIterations, scRequests, scMessages, ndVars,
                 chatVars, toolVars, treeVars, spinVars, loopVars, reqVars, regVars>>

\* The stream throws (backend failure, error record, malformed line):
\* structuredChat has no catch and the fault leaves it.
SCStreamFails ==
  /\ scPc = "stream"
  /\ scPc' = "failed"
  /\ UNCHANGED <<scMax, scRegistry, scIterations, scRequests, scMessages, scReceived,
                 scSpinning, scReturn, ndVars, chatVars, toolVars, treeVars, spinVars,
                 loopVars, reqVars, regVars>>

\* The batch has run: the assistant message and one tool message per call
\* join the messages, and the while goes round.
SCToolBatch ==
  /\ scPc = "tools"
  /\ scMessages' = Append(scMessages, "assistant") \o [i \in 1..scReceived |-> "tool"]
  /\ scPc' = "while"
  /\ UNCHANGED <<scMax, scRegistry, scIterations, scRequests, scReceived, scSpinning,
                 scReturn, ndVars, chatVars, toolVars, treeVars, spinVars, loopVars,
                 reqVars, regVars>>

ScNext == SCTurnBegin \/ SCExhausted \/ SCStreamEnds \/ SCStreamFails \/ SCToolBatch

\* A session of main, or a call of structuredChat.
IterInit ==
  /\ NDIdle /\ ChatIdle /\ ToolIdle /\ TreeIdle /\ SpinIdle /\ ReqIdle /\ RegIdle
  /\ \/ LoopStart /\ ScIdle
     \/ LoopIdle /\ ScStart

IterNext == LoopNext \/ ScNext

\* A request that was issued is answered or fails, a batch of tool calls
\* ends, and a loop that can go on does; the user need not type.
IterFairness ==
  /\ WF_vars(TurnRequest)
  /\ WF_vars(TurnResult \/ TurnFail)
  /\ WF_vars(ToolBatch)
  /\ WF_vars(SCTurnBegin)
  /\ WF_vars(SCExhausted)
  /\ WF_vars(SCStreamEnds \/ SCStreamFails)
  /\ WF_vars(SCToolBatch)

SpecIterations == IterInit /\ [][IterNext]_vars /\ IterFairness

-----------------------------------------------------------------------------
(* Claims *)

\* C1: for every input and every way of cutting it into chunks, the decoder
\* pulled to its end yields the records, and ends the way, it does when the
\* whole input arrives as one chunk; before the end it has yielded a prefix
\* of them.
IsPrefix(s, t) == Len(s) <= Len(t) /\ SubSeq(t, 1, Len(s)) = s

C1_ChunkBoundaryInvariance ==
  LET whole == Drain(<<input>>) IN
  /\ IsPrefix(ndOut, whole.records)
  /\ ndState # "open" => (ndOut = whole.records /\ ndState = whole.end)

\* A string record whose two-byte character was cut by the chunk boundary.
C1_Witness ==
  /\ ndState = "ended"
  /\ Len(chunks) >= 2
  /\ chunks[1][Len(chunks[1])] = "L"
  /\ ndOut = <<[type |-> "string", v |-> <<"E">>]>>

\* The response is a record sequence without an error record (and without
\* a malformed line).
NoErrorRecord ==
  /\ response = "ok"
  /\ \A i \in 1..Len(wire) : wire[i].kind = "value" /\ wire[i].value.error = ""

RECURSIVE AllEvents(_)
AllEvents(w) ==
  IF w = <<>> THEN <<>> ELSE ChunkEvents(Head(w).value) \o AllEvents(Tail(w))

\* C2: without an error record the consumer never fails; it receives at most
\* one ChatResult, only from the pull on which the decoder signalled
\* end-of-data (every record read, not right after a done = true record),
\* after every event of the turn, and consumeAsync returns with it.
C2_EventsThenOneResult ==
  NoErrorRecord =>
    /\ pc # "failed"
    /\ Len(results) <= 1
    /\ Len(results) = 1 <=> pc = "returned"
    /\ results # <<>> =>
         /\ readerDone
         /\ wirePos = Len(wire)
         /\ pendingEvents = <<>>
         /\ delivered = AllEvents(wire)

\* A turn with a done = true record that is not the last record.
C2_Witness ==
  /\ NoErrorRecord
  /\ Len(results) = 1
  /\ Len(wire) >= 2
  /\ wire[1].value.done
  /\ Len(delivered) >= 1

RECURSIVE ConcatContents(_)
ConcatContents(w) ==
  IF w = <<>> THEN "" ELSE Head(w).value.content \o ConcatContents(Tail(w))

RECURSIVE ConcatText(_)
ConcatText(events) ==
  IF events = <<>> THEN ""
  ELSE (IF Head(events).type = "text" THEN Head(events).content ELSE "")
         \o ConcatText(Tail(events))

\* C3: without an error record, ChatResult.text is the concatenation of the
\* records' contents in arrival order and also the concatenation of the
\* emitted text events' contents in emission order.
C3_TextIsConcatenation ==
  (NoErrorRecord /\ results # <<>>) =>
    /\ results[1].text = ConcatContents(wire)
    /\ results[1].text = ConcatText(delivered)

\* Two deltas around a record that produces no event.
C3_Witness ==
  /\ NoErrorRecord
  /\ results # <<>>
  /\ Len(wire) = 3
  /\ ChunkEvents(wire[2].value) = <<>>
  /\ results[1].text = "ab"

\* C4: the reader is cancelled exactly once when the owning scope exits, by
\* return, fault or halt: never while the scope runs, never twice, and never
\* left uncancelled after the exit.
C4_ReaderCancelledOnceOnExit ==
  /\ cancelCount <= 1
  /\ cancelCount > 0 => (scope = "exited" /\ readerAcquired)
  /\ (scope = "exited" /\ readerAcquired) => cancelCount = 1

\* The scope left by the throw of JSON.parse on a malformed line.
C4_Witness ==
  /\ scope = "exited"
  /\ exitReason = "fault"
  /\ wirePos >= 2
  /\ wire[wirePos].kind = "throw"
  /\ cancelCount = 1

\* C5: once the owning scope is halted mid-stream the source is released
\* exactly once (the reader cancelled once, the request's signal aborted)
\* and no ChatEvent and no ChatResult is delivered afterwards.
C5_HaltReleasesAndSilences ==
  /\ [](exitReason = "halt" =>
          /\ aborted
          /\ readerAcquired => cancelCount = 1
          /\ results = <<>>)
  /\ [][scope = "exited" => (delivered' = delivered /\ results' = results)]_vars

\* A halt after the first records were decoded and before end-of-data.
C5_Witness ==
  /\ exitReason = "halt"
  /\ wirePos >= 1
  /\ wirePos < Len(wire)
  /\ Len(delivered) >= 1
  /\ cancelCount = 1
  /\ aborted

\* The name of task i's call is registered / its arguments pass the schema of
\* the tool / the tool's handler raises a fault on them.
Registered(i) == ops[i].name \in {"calculator", "get_weather"}
PassesSchema(i) == ops[i].args # "bad_shape"
HandlerFaults(i) == ops[i].name = "calculator" /\ ops[i].args = "bad_value"
Returned(i) == taskState[i] = "resolved"
Phase(i) == outcome[i][1].error[1].phase

\* C6: a handler is invoked only for a registered name whose arguments pass
\* the schema; an unknown name gives a not_found failure, arguments failing
\* the schema a validation failure, both without any handler invocation.
C6_HandlerOnlyAfterLookupAndValidation ==
  \A i \in 1..Len(ops) :
    /\ handlerRuns[i] > 0 => (Registered(i) /\ PassesSchema(i))
    /\ (Returned(i) /\ ~Registered(i)) =>
         (~outcome[i][1].ok /\ Phase(i) = "not_found" /\ handlerRuns[i] = 0)
    /\ (Returned(i) /\ Registered(i) /\ ~PassesSchema(i)) =>
         (~outcome[i][1].ok /\ Phase(i) = "validation" /\ handlerRuns[i] = 0)

\* An unknown tool, a schema violation and an invoked handler in one batch.
C6_Witness ==
  /\ batchPc = "done"
  /\ Len(ops) = 3
  /\ ops[1].name = "frobnicate" /\ Phase(1) = "not_found"
  /\ ops[2].args = "bad_shape" /\ Phase(2) = "validation"
  /\ handlerRuns = <<0, 0, 1>>

\* C7: a fault of the handler becomes a failure Result of phase execution
\* carrying the call's id and tool name; it is not raised, so neither the
\* task nor the all() batch fails.
C7_HandlerFaultIsExecutionFailure ==
  /\ batchPc # "failed"
  /\ \A i \in 1..Len(ops) :
       /\ taskState[i] # "failed"
       /\ (Registered(i) /\ PassesSchema(i) /\ HandlerFaults(i) /\ handlerRuns[i] > 0) =>
            /\ Returned(i)
            /\ ~outcome[i][1].ok
            /\ outcome[i][1].error[1] =
                 ToolError(ops[i].id, ops[i].name, "fault", "execution")

\* A batch that completed although the handler of its first call faulted.
C7_Witness ==
  /\ batchPc = "done"
  /\ Len(ops) >= 2
  /\ HandlerFaults(1)
  /\ handlerRuns[1] = 1
  /\ Phase(1) = "execution"
  /\ toolResults[2].ok

\* C8: an executeToolCall that completes has returned exactly one outcome:
\* a success whose id is the call's id or a failure whose callId is the
\* call's id and whose phase is not_found, validation or execution.
C8_ExactlyOneOutcome ==
  \A i \in 1..Len(ops) :
    /\ Len(outcome[i]) <= 1
    /\ Returned(i) <=> Len(outcome[i]) = 1
    /\ \A n \in 1..Len(outcome[i]) :
         LET r == outcome[i][n] IN
         /\ (r.value # None) # (r.error # None)
         /\ r.ok <=> r.value # None
         /\ r.value # None => r.value[1].id = ops[i].id
         /\ r.error # None =>
              /\ r.error[1].callId = ops[i].id
              /\ r.error[1].phase \in {"not_found", "validation", "execution"}

\* A success and an execution failure in one completed batch.
C8_Witness ==
  /\ batchPc = "done"
  /\ Len(ops) = 2
  /\ outcome[1][1].ok /\ outcome[1][1].value[1].id = "1"
  /\ ~outcome[2][1].ok /\ Phase(2) = "execution" /\ outcome[2][1].error[1].callId = "2"

ResultId(r) == IF r.ok THEN r.value[1].id ELSE r.error[1].callId

\* C9: all() returns one entry per call, entry i being the outcome of call
\* i, whatever the order in which the calls completed; a call with a schema
\* violation gives a validation failure at its own index and a registered
\* call with good arguments a success at its own.
C9_ResultsInCallOrder ==
  batchPc = "done" =>
    /\ Len(toolResults) = Len(calls)
    /\ \A i \in 1..Len(calls) :
         /\ ResultId(toolResults[i]) = calls[i].id
         /\ (calls[i].name # "frobnicate" /\ calls[i].args = "bad_shape") =>
              (~toolResults[i].ok /\ toolResults[i].error[1].phase = "validation")
         /\ (calls[i].name # "frobnicate" /\ calls[i].args = "good") =>
              toolResults[i].ok

\* Three calls, the second failing validation, the first a call that
\* suspends and so completes after the others may have.
C9_Witness ==
  /\ batchPc = "done"
  /\ Len(calls) = 3
  /\ calls[1].name = "get_weather" /\ calls[1].args = "good"
  /\ calls[2].args = "bad_shape" /\ calls[2].name = "calculator"
  /\ calls[3].name = "calculator" /\ calls[3].args = "good"
  /\ toolResults[1].ok /\ ~toolResults[2].ok /\ toolResults[3].ok

\* C10: all() waits only once every call has been spawned; no call is ever
\* halted or failed, a spawned or suspended call can always take its next
\* step whatever the others do, and the batch is done only when every call
\* has resolved.
C10_AllLaunchedNoneStopped ==
  /\ batchPc # "failed"
  /\ batchPc \in {"waiting", "done"} => spawned = Len(calls)
  /\ \A i \in 1..Len(ops) :
       /\ taskState[i] \notin {"halted", "failed"}
       /\ (taskState[i] = "spawned" /\ batchPc # "done") => ENABLED TaskRun(i)
       /\ (taskState[i] = "suspended" /\ batchPc # "done") => ENABLED TaskResume(i)
  /\ batchPc = "done" =>
       /\ \A i \in 1..Len(calls) : Returned(i)
       /\ Len(toolResults) = Len(calls)

\* The first call still suspended in its handler while the second has
\* failed validation and the third has succeeded.
C10_Witness ==
  /\ batchPc = "waiting"
  /\ Len(ops) = 3
  /\ taskState[1] = "suspended"
  /\ Returned(2) /\ ~outcome[2][1].ok
  /\ Returned(3) /\ outcome[3][1].ok

\* The children the program creates in task p, and the position of a task
\* in the log of cleanups (0 when its cleanup has not run).
Created(p) == {ChildrenOf(p)[i] : i \in DOMAIN ChildrenOf(p)}
CleanupPos(t) ==
  IF \E k \in DOMAIN cleanupLog : cleanupLog[k] = t
  THEN CHOOSE k \in DOMAIN cleanupLog : cleanupLog[k] = t
  ELSE 0

\* C11: once the exit of a scope has completed, whatever its reason, every
\* task spawned in it is done with its cleanup run before the scope's own,
\* and no such task takes any further step.
C11_ChildrenHaltedBeforeExitCompletes ==
  /\ [](\A p \in DOMAIN tStatus : tStatus[p] = "done" =>
          \A c \in Created(p) :
            /\ tStatus[c] \in {"unspawned", "done"}
            /\ tStatus[c] = "done" =>
                 (CleanupPos(c) > 0 /\ CleanupPos(c) < CleanupPos(p)))
  /\ [][\A p \in DOMAIN tStatus : tStatus[p] = "done" =>
          \A c \in Created(p) : ticks'[c] = ticks[c] /\ tStatus'[c] = tStatus[c]]_vars

\* main has returned while A, A1 and B were still running, and all three
\* were halted.
C11_Witness ==
  /\ tStatus # <<>>
  /\ tStatus["main"] = "done" /\ tReason["main"] = "return"
  /\ tReason["A"] = "halt" /\ tReason["A1"] = "halt" /\ tReason["B"] = "halt"
  /\ ticks["A1"] > 0 /\ ticks["B"] > 0

\* C12: when a spawned child has failed, its parent fails with the same
\* fault; the parent's failure is complete only when every child of it is
\* done, and after the child's failure the parent takes no further step
\* and no sibling returns.
C12_ChildFaultFailsParent ==
  /\ [](\A p \in DOMAIN tStatus : \A c \in Created(p) :
          (tStatus[c] = "done" /\ tReason[c] = "fault") =>
            /\ tStatus[p] \in {"exiting", "done"}
            /\ tReason[p] = "fault"
            /\ tFault[p] = tFault[c]
            /\ tStatus[p] = "done" =>
                 \A s \in Created(p) : tStatus[s] \in {"unspawned", "done"})
  /\ [][\A p \in DOMAIN tStatus : \A c \in Created(p) :
          (tStatus[c] = "done" /\ tReason[c] = "fault") =>
            /\ ticks'[p] = ticks[p]
            /\ \A s \in Created(p) :
                 /\ tReason'[s] = "return" => tReason[s] = "return"
                 /\ tStatus[s] = "unspawned" => tStatus'[s] = "unspawned"]_vars

\* A1 threw: A failed with A1's fault after halting A2, and main failed with
\* it after halting B.
C12_Witness ==
  /\ tStatus # <<>>
  /\ tFault["A1"] = "A1" /\ tReason["A2"] = "halt"
  /\ tFault["A"] = "A1" /\ tReason["B"] = "halt"
  /\ tStatus["main"] = "done" /\ tFault["main"] = "A1"

\* C13: a task's cleanup runs after the cleanups of the tasks spawned in
\* it, and of two siblings halted by their parent the one created later is
\* cleaned up first.
C13_CleanupInnermostFirst ==
  \A p \in DOMAIN tStatus :
    /\ \A c \in Created(p) :
         (CleanupPos(p) > 0 /\ tStatus[c] # "unspawned") =>
           (CleanupPos(c) > 0 /\ CleanupPos(c) < CleanupPos(p))
    /\ \A i, j \in DOMAIN ChildrenOf(p) :
         LET a == ChildrenOf(p)[i]
             b == ChildrenOf(p)[j]
         IN (i < j /\ tReason[a] = "halt" /\ tReason[b] = "halt"
               /\ CleanupPos(a) > 0 /\ CleanupPos(b) > 0) =>
              CleanupPos(b) < CleanupPos(a)

\* The whole tree of hierarchy.ts torn down by a halt of main.
C13_Witness ==
  /\ tStatus # <<>>
  /\ tReason["main"] = "halt"
  /\ cleanupLog = <<"B", "A2", "A1", "A", "main">>

\* The last call made on the spinner.
LastCall == IF spLog = <<>> THEN "none" ELSE spLog[Len(spLog)]

\* C14: at most one animation task is alive; a start while an animation is
\* running spawns nothing and changes nothing, and a start when none is
\* running (at first, or after a stop) spawns exactly one.
C14_AtMostOneAnimation ==
  /\ [](Cardinality(alive) <= 1)
  /\ [][(Len(spLog') = Len(spLog) + 1 /\ spLog'[Len(spLog')] = "start") =>
          IF alive # {}
          THEN /\ alive' = alive
               /\ animationTask' = animationTask
               /\ spawnCount' = spawnCount
               /\ taskLabel' = taskLabel
          ELSE /\ spawnCount' = spawnCount + 1
               /\ alive' = {spawnCount'}
               /\ animationTask' = Some(spawnCount')]_vars

\* A start, a second start that is ignored, a stop, and a start again: the
\* second animation is the only one alive.
C14_Witness ==
  /\ spLog = <<"start", "start", "stop", "start">>
  /\ spawnCount = 2
  /\ alive = {2}

\* C15: once stop has returned, once withSpinner has completed (by return
\* or by throw), and once the owning scope has exited (by return, fault or
\* halt), no animation is alive and every animation spawned has been
\* followed by its terminal clear; without an animation alive no frame is
\* written.
C15_StoppedAndCleared ==
  /\ []((\/ spScope # "running"
         \/ (spPc = "ready" /\ LastCall = "stop")
         \/ spPc = "w_done")
        => (alive = {} /\ clears = spawnCount))
  /\ [][alive = {} => frames' = frames]_vars

\* withSpinner completed with a throw of its operation, after a frame was
\* written; the scope is still running.
C15_Witness ==
  /\ spScope = "running"
  /\ spMode = "with"
  /\ spPc = "w_done"
  /\ wOutcome = "throw"
  /\ frames # <<>>
  /\ clears = 1

\* What the tool message of a call must say: the content of its result, or
\* "Error: " and the message of the phase the call failed in.
ExpectedToolContent(tc) ==
  IF tc.name \notin {"get_weather", "calculator", "search"} THEN "Error: Unknown tool"
  ELSE IF tc.args = "bad_shape" THEN "Error: Validation failed"
  ELSE IF tc.name = "calculator" /\ tc.args = "bad_value" THEN "Error: fault"
  ELSE "content"

\* The step of the loop that handles the tool calls of a turn appends the
\* assistant message carrying the calls and one tool message per call, in
\* call order.
ToolStepAppends ==
  LET tcs == lpResult[1].toolCalls[1]
      n == Len(messages)
  IN /\ Len(messages') = n + 1 + Len(tcs)
     /\ SubSeq(messages', 1, n) = messages
     /\ messages'[n + 1].role = "assistant"
     /\ messages'[n + 1].tool_calls = Some(tcs)
     /\ \A i \in 1..Len(tcs) :
          /\ messages'[n + 1 + i].role = "tool"
          /\ messages'[n + 1 + i].tool_call_id = Some(tcs[i].id)
          /\ messages'[n + 1 + i].content = ExpectedToolContent(tcs[i])

\* C16 (as stated): whatever the tool calls of a turn end in, the loop
\* appends the assistant message and the tool messages and then goes on to
\* the next backend request.
C16_Original_ToolErrorsFedBack ==
  [][lpPc = "tools" => (ToolStepAppends /\ lpPc' = "turn" /\ iterations' < maxIterations)]_vars

\* C16 (amended): whatever the tool calls of a turn end in, the loop is not
\* aborted: it appends the assistant message and one tool message per call
\* in call order, and goes on to the next backend request unless this was
\* the maxIterations-th turn of the user input, after which it returns to
\* the prompt without a request.
C16_ToolErrorsFedBack ==
  [][lpPc = "tools" =>
       /\ ToolStepAppends
       /\ "error" \notin {lpNotes'[k] : k \in DOMAIN lpNotes'} \ {lpNotes[k] : k \in DOMAIN lpNotes}
       /\ Len(lpNotes') = Len(lpNotes) + (IF iterations < maxIterations THEN 0 ELSE 1)
       /\ IF iterations < maxIterations
          THEN lpPc' = "turn" /\ iterations' < maxIterations
          ELSE lpPc' = "prompt"]_vars

\* A batch whose three calls failed in the three phases was fed back, and
\* the next request was issued with the five messages that followed the
\* first request's two.
C16_Witness ==
  /\ lpPc = "stream"
  /\ requestLog = <<2, 6>>
  /\ messages[3].role = "assistant"
  /\ messages[4].content = "Error: fault"
  /\ messages[5].content = "Error: Unknown tool"
  /\ messages[6].content = "Error: Validation failed"

RECURSIVE ConcatThinking(_)
ConcatThinking(events) ==
  IF events = <<>> THEN ""
  ELSE (IF Head(events).type = "thinking" THEN Head(events).content ELSE "")
         \o ConcatThinking(Tail(events))

RECURSIVE ConcatCalls(_)
ConcatCalls(events) ==
  IF events = <<>> THEN <<>>
  ELSE (IF Head(events).type = "tool_calls" THEN Head(events).toolCalls ELSE <<>>)
         \o ConcatCalls(Tail(events))

\* The decoder has yielded a record with an error string.
ErrorRecordRead ==
  /\ wirePos >= 1
  /\ wire[wirePos].kind = "value"
  /\ wire[wirePos].value.error # ""

\* C17: a turn whose response is not OK or has no body, or in which a
\* record with an error string was read, fails and gives no ChatResult;
\* what was emitted and accumulated is what the records before the error
\* record gave, nothing of the error record itself.
C17_BackendFailureFailsTurn ==
  /\ response # "ok" =>
       /\ results = <<>>
       /\ delivered = <<>>
       /\ pc \in {"start", "fetch", "failed"}
       /\ ~readerAcquired
  /\ ErrorRecordRead =>
       LET before == SubSeq(wire, 1, wirePos - 1) IN
       /\ pc = "failed"
       /\ results = <<>>
       /\ delivered = AllEvents(before)
       /\ pendingEvents = <<>>
       /\ textBuffer = ConcatContents(before)
       /\ thinkingBuffer = ConcatThinking(AllEvents(before))
       /\ toolCalls = ConcatCalls(AllEvents(before))

\* A text record, then an error record that itself carries content,
\* thinking and a tool call: the turn has failed and left the scope.
C17_Witness ==
  /\ response = "ok"
  /\ wirePos = 2
  /\ ErrorRecordRead
  /\ wire[2].value.content # "" /\ wire[2].value.tool_calls # None
  /\ Len(delivered) = 1
  /\ exitReason = "fault"

\* The accumulated text is valid JSON / satisfies the schema.
TextIsJSON == textBuffer \in {"{}", "{k}", "1"}
TextFitsSchema == textBuffer = "{k}"

\* What the claim says the stream ends with, read off the accumulated text.
ResultFitsText(r) ==
  /\ ~TextIsJSON => (~r.ok /\ r.error[1].phase = "json")
  /\ (TextIsJSON /\ ~TextFitsSchema) => (~r.ok /\ r.error[1].phase = "validation")
  /\ (TextIsJSON /\ TextFitsSchema) => (r.ok /\ r.value[1].raw = textBuffer)

\* C18 (as stated): at the decoder's end-of-data the structured stream ends
\* with a Result, never with a fault: phase json for a text that is not
\* JSON, phase validation for JSON that violates the schema, a success
\* otherwise.
C18_Original_AlwaysAResult ==
  readerDone =>
    /\ pc = "returned"
    /\ Len(results) = 1
    /\ ResultFitsText(results[1])

\* C18 (amended): at the decoder's end-of-data the structured stream ends
\* with a Result, never with a fault.  With no tool call accumulated the
\* Result is as the claim says; with tool calls accumulated it is a
\* failure of phase json that carries the text, whatever the text is.
C18_AlwaysAResult ==
  readerDone =>
    /\ pc = "returned"
    /\ Len(results) = 1
    /\ IF toolCalls = <<>>
       THEN ResultFitsText(results[1])
       ELSE /\ ~results[1].ok
            /\ results[1].error[1].phase = "json"
            /\ results[1].error[1].raw = textBuffer

\* Two records add up to the text {} and to no tool call: the Result is
\* a validation failure, returned.
C18_Witness ==
  /\ readerDone
  /\ toolCalls = <<>>
  /\ textBuffer = "{}"
  /\ Len(wire) = 2
  /\ ~results[1].ok
  /\ results[1].error[1].phase = "validation"
  /\ exitReason = "return"

\* A registry that holds at least one tool is active for the request.
NonEmptyRegistryActive ==
  /\ rqOptions # None
  /\ rqOptions[1].tools # None
  /\ rqOptions[1].tools[1].source # <<>>

\* C19 (as stated): the request has a tools field only when a non-empty
\* registry is active, and a format field exactly when it is the request of
\* a structured turn.
C19_ToolsAndFormatFields ==
  rqBody # None =>
    /\ rqBody[1].tools # None => NonEmptyRegistryActive
    /\ rqBody[1].format # None <=> rqKind = "structured"

\* A stream called with an empty registry has built a request with an empty
\* tools field.
C19_Witness ==
  /\ rqBody # None
  /\ rqOptions # None
  /\ rqOptions[1].tools = Some(Registry(<<>>))
  /\ rqBody[1].tools = Some(<<>>)

\* totalTokens is the sum of the other two counts.
TotalIsSum(u) == u.totalTokens = u.promptTokens + u.completionTokens

\* C20: every TokenUsage of a session (the zero usage, the usage of each
\* turn, and the cumulative usage after any number of turns) has
\* totalTokens = promptTokens + completionTokens.
C20_TotalIsSumOfParts ==
  /\ TotalIsSum(emptyUsage)
  /\ \A r \in TurnResults : TotalIsSum(r.usage)
  /\ lpUsage # <<>> =>
       /\ TotalIsSum(lpUsage.current)
       /\ TotalIsSum(lpUsage.cumulative)
       /\ \A i \in 1..Len(lpUsage.history) : TotalIsSum(lpUsage.history[i])

\* Several turns with tokens have been added up.
C20_Witness ==
  /\ lpUsage # <<>>
  /\ Len(lpUsage.history) >= 3
  /\ lpUsage.current.totalTokens > 0
  /\ lpUsage.cumulative.promptTokens > lpUsage.current.promptTokens
  /\ lpUsage.cumulative.completionTokens > lpUsage.current.completionTokens

\* Component-wise sum of a sequence of usages.
RECURSIVE SumUsages(_)
SumUsages(us) ==
  IF us = <<>> THEN emptyUsage
  ELSE LET rest == SumUsages(SubSeq(us, 1, Len(us) - 1))
           u == us[Len(us)]
       IN [promptTokens |-> rest.promptTokens + u.promptTokens,
           completionTokens |-> rest.completionTokens + u.completionTokens,
           totalTokens |-> rest.totalTokens + u.totalTokens]

\* Number of "error" reports in a sequence of notes.
FailedTurns(notes) == Cardinality({i \in 1..Len(notes) : notes[i] = "error"})

\* Turns that ran to their ChatResult: every request issued, less the one
\* in flight and the ones that failed.
CompletedTurns ==
  Len(requestLog) - FailedTurns(lpNotes) - (IF lpPc = "stream" THEN 1 ELSE 0)

UsageStateFitsTurns ==
  lpUsage # <<>> =>
    /\ lpUsage.cumulative = SumUsages(lpUsage.history)
    /\ Len(lpUsage.history) = CompletedTurns
    /\ lpUsage.current = IF lpUsage.history = <<>> THEN emptyUsage
                         ELSE lpUsage.history[Len(lpUsage.history)]
    /\ lpUsage.contextLimit = 8192

\* A step either completes a turn, and then appends that turn's usage to
\* the history, or leaves the UsageState alone.
UsageStep ==
  IF lpPc = "stream" /\ lpPc' # "stream" /\ lpNotes' # Append(lpNotes, "error")
  THEN /\ lpResult' # None
       /\ lpUsage'.history = Append(lpUsage.history, lpResult'[1].usage)
  ELSE lpUsage' = lpUsage

\* C21: cumulative is the component-wise sum of the usages of all completed
\* turns, history holds exactly one entry per completed turn in turn order,
\* current is the last entry, a failed turn adds nothing, and contextLimit
\* never changes.
C21_UsageStateTracksTurns == []UsageStateFitsTurns /\ [][UsageStep]_vars

\* Turns have completed and a turn has failed.
C21_Witness ==
  /\ lpUsage # <<>>
  /\ Len(lpUsage.history) >= 2
  /\ FailedTurns(lpNotes) >= 1
  /\ lpUsage.cumulative.totalTokens > lpUsage.current.totalTokens
  /\ lpUsage.history[1] # lpUsage.history[2]

\* The records with the done flag that the stream has accumulated so far.
DoneRecordsRead ==
  {i \in 1..wirePos : /\ wire[i].kind = "value"
                      /\ wire[i].value.error = ""
                      /\ wire[i].value.done}

\* The last of them.
LastDoneRecord == wire[Max(DoneRecordsRead)].value

NonNegative(u) == u.promptTokens >= 0 /\ u.completionTokens >= 0 /\ u.totalTokens >= 0

RECURSIVE ConcatChunks(_, _)
ConcatChunks(chs, from) ==
  IF from > Len(chs) THEN <<>> ELSE chs[from] \o ConcatChunks(chs, from + 1)

\* The text the decoder has still to go through: its buffer and what the
\* chunks not yet read decode to.
RestText == buffer \o DecodeStream(decPending, ConcatChunks(chunks, readPos + 1)).text

\* The whole input as text.
WholeText == DecodeStream(FALSE, input).text

\* The part of a text after its last newline.
FinalLine(t) ==
  LET nls == {i \in 1..Len(t) : t[i] = "n"} IN
  IF nls = {} THEN t ELSE SubSeq(t, Max(nls) + 1, Len(t))

\* The lines of a text, the final one included, that are not blank.
RECURSIVE NonBlankLines(_)
NonBlankLines(t) ==
  LET i == IndexOfNewline(t) IN
  IF i = 0 THEN (IF Trim(t) # <<>> THEN 1 ELSE 0)
  ELSE (IF Trim(SubSeq(t, 1, i - 1)) # <<>> THEN 1 ELSE 0)
         + NonBlankLines(SubSeq(t, i + 1, Len(t)))

\* A pull when only the final, unterminated line is left.
TrailingLineStep ==
  (ndState = "open" /\ IndexOfNewline(RestText) = 0) =>
     LET remaining == Trim(RestText) IN
     IF remaining = <<>>
     THEN ndState' = "ended" /\ ndOut' = ndOut
     ELSE JSONValid(remaining) =>
            /\ ndOut' = Append(ndOut, JSONParse(remaining))
            /\ ndState' = "open"
            /\ NDJSONNext(buffer', decPending', readPos', chunks).kind = "done"

\* Once ended, the decoder has yielded one record per non-blank line, the
\* last of them the final line if that is not blank.
TrailingLineOnce ==
  ndState = "ended" =>
     /\ Len(ndOut) = NonBlankLines(WholeText)
     /\ Trim(FinalLine(WholeText)) # <<>> =>
          ndOut[Len(ndOut)] = JSONParse(Trim(FinalLine(WholeText)))

\* C23: at end-of-data a final line without a terminating newline is yielded
\* as a record exactly once if it is non-empty after trimming and not at
\* all otherwise, and the pull after it signals end-of-data.
C23_TrailingLineYieldedOnce == []TrailingLineOnce /\ [][TrailingLineStep]_vars

\* A record, then a final line with a trailing space and no newline.
C23_Witness ==
  /\ ndState = "ended"
  /\ Len(ndOut) = 2
  /\ FinalLine(WholeText) # <<>>
  /\ FinalLine(WholeText) # WholeText
  /\ Trim(FinalLine(WholeText)) # FinalLine(WholeText)

\* The first line of a text that is not blank, trimmed; <<>> if there is none.
RECURSIVE FirstNonBlankLine(_)
FirstNonBlankLine(t) ==
  LET i == IndexOfNewline(t) IN
  IF i = 0 THEN Trim(t)
  ELSE IF Trim(SubSeq(t, 1, i - 1)) # <<>> THEN Trim(SubSeq(t, 1, i - 1))
       ELSE FirstNonBlankLine(SubSeq(t, i + 1, Len(t)))

\* The number of non-blank lines of a text before its first line that is
\* not valid JSON.
RECURSIVE ValidLinesBeforeBad(_)
ValidLinesBeforeBad(t) ==
  LET i == IndexOfNewline(t)
      line == IF i = 0 THEN Trim(t) ELSE Trim(SubSeq(t, 1, i - 1))
      rest == IF i = 0 THEN <<>> ELSE SubSeq(t, i + 1, Len(t))
  IN IF line # <<>> /\ ~JSONValid(line) THEN 0
     ELSE IF i = 0 THEN (IF line # <<>> THEN 1 ELSE 0)
     ELSE (IF line # <<>> THEN 1 ELSE 0) + ValidLinesBeforeBad(rest)

\* A pull fails exactly when the next non-blank line is not valid JSON, and
\* then it yields nothing.
BadLineStep ==
  ndState = "open" =>
     LET line == FirstNonBlankLine(RestText) IN
     /\ (line # <<>> /\ ~JSONValid(line)) => (ndState' = "failed" /\ ndOut' = ndOut)
     /\ ndState' = "failed" => (line # <<>> /\ ~JSONValid(line))

\* A failed decoder has yielded the lines before the bad one and no more.
BadLineStops ==
  ndState = "failed" =>
     /\ Len(ndOut) = ValidLinesBeforeBad(WholeText)
     /\ Len(ndOut) < NonBlankLines(WholeText)

\* C24: the pull that reaches a line that is not valid JSON (terminated or
\* trailing) fails instead of yielding a record, and does not go on to
\* yield a later line.
C24_MalformedLineFailsPull == []BadLineStops /\ [][BadLineStep]_vars

\* A bad line followed by a good one: the decoder failed without a record.
C24_Witness ==
  /\ ndState = "failed"
  /\ ndOut = <<>>
  /\ NonBlankLines(WholeText) >= 2
  /\ Trim(FinalLine(WholeText)) # <<>>
  /\ JSONValid(Trim(FinalLine(WholeText)))

\* The positions of a list of definitions that hold the name k.
PositionsOf(tools, k) == {i \in 1..Len(tools) : tools[i].name = k}

\* The definition a call of the name k must reach: the last one in the list.
LastDefinition(tools, k) == tools[Max(PositionsOf(tools, k))]

\* C25: the registry's map holds one definition per name of the list and no
\* other, the last one of that name in the list, and that is the one
\* executeToolCall looks up and runs.
C25_LastDefinitionWins ==
  /\ rgRegistry # None =>
       LET map == rgRegistry[1] IN
       /\ DOMAIN map = {rgTools[i].name : i \in 1..Len(rgTools)}
       /\ \A k \in DOMAIN map : map[k] = LastDefinition(rgTools, k)
  /\ rgResult # None =>
       LET r == rgResult[1] IN
       IF PositionsOf(rgTools, rgCall.name) = {}
       THEN ~r.ok /\ r.error[1].phase = "not_found"
       ELSE LET tool == LastDefinition(rgTools, rgCall.name) IN
            IF ~SchemaOk(tool, rgCall.args)
            THEN ~r.ok /\ r.error[1].phase = "validation"
            ELSE IF HandlerOutcome(tool, rgCall.args) = "throw"
            THEN ~r.ok /\ r.error[1].phase = "execution"
            ELSE r.ok

\* calculatorTool, which fails on the call's arguments, precedes a
\* definition of the same name that does not: the call succeeds.
C25_Witness ==
  /\ rgResult # None
  /\ Len(rgTools) >= 2
  /\ rgTools[1] = calculatorTool
  /\ rgTools[Len(rgTools)] = calculatorLenient
  /\ rgCall.name = "calculator"
  /\ rgCall.args = "bad_value"
  /\ rgResult[1].ok

\* The records the stream has accumulated: those read, less the one it
\* failed on.
AccumulatedRecords ==
  {i \in 1..wirePos : wire[i].kind = "value" /\ wire[i].value.error = ""}

\* Whether a record carries what an event of the type reports.
Carries(c, type) ==
  CASE type = "text" -> c.content # ""
    [] type = "thinking" -> c.thinking # ""
    [] OTHER -> c.tool_calls # None

\* The event of a type for a record that carries it.
EventFor(c, type) ==
  CASE type = "text" -> Event("text", c.content, <<>>)
    [] type = "thinking" -> Event("thinking", c.thinking, <<>>)
    [] OTHER -> Event("tool_calls", "", c.tool_calls[1])

\* The events of a record in the order text, thinking, tool_calls.
OrderedEvents(c) ==
  LET types == SelectSeq(<<"text", "thinking", "tool_calls">>, LAMBDA t : Carries(c, t))
  IN [i \in 1..Len(types) |-> EventFor(c, types[i])]

\* The events of the accumulated records among the first n read, record
\* by record.
RECURSIVE EventsUpTo(_)
EventsUpTo(n) ==
  IF n = 0 THEN <<>>
  ELSE EventsUpTo(n - 1)
         \o (IF n \in AccumulatedRecords THEN OrderedEvents(wire[n].value) ELSE <<>>)

\* C26: the events of one record are emitted in the order text, thinking,
\* tool_calls, and all events of a record before any event of a later one.
C26_EventOrder == delivered \o pendingEvents = EventsUpTo(wirePos)

\* A record with content, thinking and a tool call, then a later record.
C26_Witness ==
  /\ Len(delivered) >= 4
  /\ delivered[1].type = "text"
  /\ delivered[2].type = "thinking"
  /\ delivered[3].type = "tool_calls"
  /\ wire[1].value.content # "" /\ wire[1].value.thinking # ""
  /\ wire[1].value.tool_calls # None

\* A step of the stream: a record is read only with the queue empty; with
\* an event queued the pull delivers the head of the queue and leaves the
\* rest; whatever is delivered is appended to what was delivered before.
DrainBeforeRead ==
  /\ wirePos' # wirePos => pendingEvents = <<>>
  /\ (pendingEvents # <<>> /\ pc = "pull" /\ pc' # "pull") =>
        /\ delivered' = Append(delivered, Head(pendingEvents))
        /\ pendingEvents' = Tail(pendingEvents)
  /\ delivered' # delivered =>
        /\ Len(delivered') = Len(delivered) + 1
        /\ SubSeq(delivered', 1, Len(delivered)) = delivered

\* C27: useChatStream reads a record from the decoder only when its queue
\* of pending events is empty, and delivers the queued events first-in
\* first-out.
C27_QueueDrainedBeforeNextRecord == [][DrainBeforeRead]_vars

\* A record with several events has been drained and a later record read.
C27_Witness ==
  /\ wirePos >= 2
  /\ AccumulatedRecords = 1..wirePos
  /\ Len(OrderedEvents(wire[1].value)) >= 2
  /\ Len(OrderedEvents(wire[2].value)) >= 2
  /\ Len(delivered) = Len(OrderedEvents(wire[1].value)) + 1
  /\ pendingEvents # <<>>

\* A pull ends with an event, with the ChatResult or with a failure; the
\* event is one of a record, the ChatResult comes with every record read,
\* and every record the pull read before the one it stopped at had no event.
PullNeverEmpty ==
  (pc = "pull" /\ pc' # "pull" /\ scope' = "running") =>
     /\ \/ /\ pc' = "handle"
           /\ Len(delivered') = Len(delivered) + 1
           /\ delivered'[Len(delivered')].type \in {"text", "thinking", "tool_calls"}
           /\ results' = results
        \/ /\ pc' = "returned"
           /\ Len(results') = Len(results) + 1
           /\ wirePos' = Len(wire)
           /\ delivered' = delivered
        \/ /\ pc' = "failed"
           /\ wirePos' > wirePos
           /\ (wire[wirePos'].kind = "throw" \/ wire[wirePos'].value.error # "")
     /\ \A i \in (wirePos + 1)..(wirePos' - 1) :
           i \in AccumulatedRecords' /\ OrderedEvents(wire[i].value) = <<>>
     /\ (pc' = "returned" /\ wirePos' > wirePos) =>
           OrderedEvents(wire[wirePos'].value) = <<>>

\* C28: a pull of useChatStream never returns an empty step: past a record
\* without content, thinking and tool calls the same pull reads on until
\* it has an event or the ChatResult to return.
C28_NoEmptyStep == [][PullNeverEmpty]_vars

\* One pull has read a record without events and the record after it, and
\* returned that one's event.
C28_Witness ==
  /\ pc = "handle"
  /\ wirePos = 2
  /\ AccumulatedRecords = {1, 2}
  /\ OrderedEvents(wire[1].value) = <<>>
  /\ Len(delivered) = 1

\* The thinking deltas of a record sequence, concatenated.
RECURSIVE ThinkingOf(_)
ThinkingOf(w) ==
  IF w = <<>> THEN "" ELSE Head(w).value.thinking \o ThinkingOf(Tail(w))

\* The tool calls of a record sequence, in arrival order.
RECURSIVE CallsOf(_)
CallsOf(w) ==
  IF w = <<>> THEN <<>>
  ELSE (IF Head(w).value.tool_calls # None THEN Head(w).value.tool_calls[1] ELSE <<>>)
         \o CallsOf(Tail(w))

\* C29: in the ChatResult thinking is absent exactly when no thinking text
\* was received and is otherwise the concatenation of the thinking deltas;
\* toolCalls is absent exactly when no tool call was received and otherwise
\* lists every received call in arrival order, one entry per reported
\* call, calls of different records with the same id included.
C29_ThinkingAndToolCallsOfResult ==
  results # <<>> =>
    /\ results[1].thinking =
         IF ThinkingOf(wire) = "" THEN None ELSE Some(ThinkingOf(wire))
    /\ results[1].toolCalls =
         IF CallsOf(wire) = <<>> THEN None ELSE Some(CallsOf(wire))

\* Two records report a call with the same id and each has a thinking delta.
C29_Witness ==
  /\ results # <<>>
  /\ Len(wire) = 2
  /\ results[1].thinking = Some("tt")
  /\ results[1].toolCalls = Some(<<Call1, Call1>>)

\* The records of the response that have the done flag.
DoneRecords == {i \in 1..Len(wire) : wire[i].value.done}

\* The usage that the counters of a record stand for.
CountersOf(c) ==
  LET p == IF c.prompt_eval_count = None THEN 0 ELSE c.prompt_eval_count[1]
      e == IF c.eval_count = None THEN 0 ELSE c.eval_count[1]
  IN [promptTokens |-> p, completionTokens |-> e, totalTokens |-> p + e]

\* The response {content 'Hi', done false}, {content '', done true,
\* prompt_eval_count 5, eval_count 2}, "a" standing for 'Hi'.
HiThenDone ==
  <<[kind |-> "value", value |-> Chunk("a", "", None, FALSE, None, None, "")],
    [kind |-> "value", value |-> Chunk("", "", None, TRUE, Some(5), Some(2), "")]>>

\* C30: ChatResult.usage is the counters of the last record with the done
\* flag (absent as zero, total their sum), whatever counters other records
\* carry, and all zeros without such a record; the response 'Hi' (not
\* done), then done with counters 5 and 2, gives one text event 'Hi' and
\* then the ChatResult with text 'Hi' and usage 5/2/7.
C30_UsageOfLastDoneRecord ==
  results # <<>> =>
    /\ results[1].usage =
         IF DoneRecords = {}
         THEN [promptTokens |-> 0, completionTokens |-> 0, totalTokens |-> 0]
         ELSE CountersOf(wire[Max(DoneRecords)].value)
    /\ wire = HiThenDone =>
         /\ delivered = <<Event("text", "a", <<>>)>>
         /\ results = <<[text |-> "a", thinking |-> None, toolCalls |-> None,
                         usage |-> [promptTokens |-> 5, completionTokens |-> 2,
                                    totalTokens |-> 7]]>>

\* The turn of the example has returned.
C30_Witness ==
  /\ wire = HiThenDone
  /\ pc = "returned"
  /\ results # <<>>

\* The thinking and tool_calls events of a record, in that order.
SilentTextEvents(c) ==
  LET types == SelectSeq(<<"thinking", "tool_calls">>, LAMBDA t : Carries(c, t))
  IN [i \in 1..Len(types) |-> EventFor(c, types[i])]

\* Those of the accumulated records among the first n read.
RECURSIVE StructEventsUpTo(_)
StructEventsUpTo(n) ==
  IF n = 0 THEN <<>>
  ELSE StructEventsUpTo(n - 1)
         \o (IF n \in AccumulatedRecords THEN SilentTextEvents(wire[n].value) ELSE <<>>)

\* The contents of the accumulated records among the first n read.
RECURSIVE ContentUpTo(_)
ContentUpTo(n) ==
  IF n = 0 THEN ""
  ELSE ContentUpTo(n - 1)
         \o (IF n \in AccumulatedRecords THEN wire[n].value.content ELSE "")

\* C31: useStructuredChat emits no text event: content only joins the
\* buffer, the thinking and tool_calls events of each record are emitted as
\* they arrive, and with at least one tool call received the terminal value
\* is the failure 'Tool calls pending' with the raw text, whatever the text.
C31_StructuredNeverEmitsText ==
  /\ \A i \in 1..Len(delivered) : delivered[i].type \in {"thinking", "tool_calls"}
  /\ delivered \o pendingEvents = StructEventsUpTo(wirePos)
  /\ textBuffer = ContentUpTo(wirePos)
  /\ (results # <<>> /\ toolCalls # <<>>) =>
        results[1] = err(ParseError("json", "Tool calls pending", textBuffer))

\* Text that is valid for the schema and a tool call have arrived, and the
\* stream has ended.
C31_Witness ==
  /\ results # <<>>
  /\ textBuffer = "{k}"
  /\ toolCalls # <<>>
  /\ Len(delivered) = 1
  /\ delivered[1].type = "tool_calls"

\* The inner while of main is at work on a user input.
InToolLoop == lpPc \in {"turn", "stream", "tools"}

\* The requests the model allows suffice for a whole user input.
RequestBudget == Len(requestLog) - iterations + maxIterations <= MaxRequests

\* structuredChat is at work.
InStructuredChat == scPc \in {"while", "stream", "tools"}

\* The number of assistant messages in structuredChat's messages: the
\* turns whose tool calls were executed.
ToolTurns == Cardinality({i \in 1..Len(scMessages) : scMessages[i] = "assistant"})

\* Every request counts as an iteration, and there are at most
\* maxIterations of them.
RequestsBounded ==
  /\ iterations <= maxIterations
  /\ scIterations <= SCMaxIterations(scMax) \/ scIterations = 0
  /\ scRequests = scIterations

\* A request of main is one more iteration of the current input.
RequestStep ==
  Len(requestLog') > Len(requestLog) =>
     /\ Len(requestLog') = Len(requestLog) + 1
     /\ iterations' = iterations + 1
     /\ iterations' <= maxIterations

\* How main's loop comes back to the prompt without a fault: from a turn
\* without tool calls, or from the batch of the maxIterations-th turn.
LoopEndStep ==
  (InToolLoop /\ lpPc' = "prompt" /\ lpNotes' # Append(lpNotes, "error")) =>
     \/ lpPc = "stream" /\ ~HasToolCalls(lpResult'[1])
     \/ lpPc = "tools" /\ iterations = maxIterations

\* What structuredChat returns: the result of a turn without tool calls to
\* execute, or, after maxIterations turns that all had tool calls executed,
\* the failure 'Max iterations reached'.
StructuredChatReturn ==
  (scPc = "returned" /\ scReturn # None) =>
     IF scReturn[1] = MaxIterationsReached
     THEN /\ scIterations = SCMaxIterations(scMax) \/ SCMaxIterations(scMax) <= 0
          /\ ToolTurns = scIterations
     ELSE /\ ToolTurns = scIterations - 1
          /\ scReceived = 0 \/ ~scRegistry

\* C32: one user input of main's loop and one call of structuredChat issue
\* at most maxIterations backend requests and always end: at a turn without
\* tool calls to execute, or after the maxIterations-th turn when every
\* turn had tool calls, structuredChat then returning 'Max iterations
\* reached' (a turn that faults ends them too).
C32_BoundedIterations ==
  /\ []RequestsBounded
  /\ []StructuredChatReturn
  /\ [][RequestStep /\ LoopEndStep]_vars
  /\ (InToolLoop /\ RequestBudget) ~> (lpPc = "prompt")
  /\ InStructuredChat ~> (scPc \in {"returned", "failed"})

\* structuredChat with the default limit has made ten turns with tool
\* calls and returned the failure.
C32_Witness ==
  /\ scMax = None
  /\ scRequests = 10
  /\ scPc = "returned"
  /\ scReturn = Some(MaxIterationsReached)

\* C33: whenever main waits for user input, after a completed turn or
\* after a turn that faulted and was caught, no spinner animation runs.
C33_NoAnimationAtPrompt == lpPc = "prompt" => lpAnimations = 0

\* A turn faulted after a thinking event, and main is back at the prompt
\* with the animation of that turn's spinner still running.
C33_Witness ==
  /\ lpPc = "prompt"
  /\ lpNotes # <<>> /\ lpNotes[Len(lpNotes)] = "error"
  /\ lpAnimations >= 1

\* C34: 'Max tool iterations reached' is reported only when the
\* maxIterations-th turn returned tool calls, never at a turn whose final
\* text was received.
C34_MaxOnlyAfterToolCalls ==
  [][lpNotes' = Append(lpNotes, "max_iterations") => lpPc = "tools"]_vars

\* The tenth turn of an input brought the final text, and the report was
\* made.
C34_Witness ==
  /\ lpPc = "prompt"
  /\ iterations = maxIterations
  /\ messages[Len(messages)].role = "assistant"
  /\ messages[Len(messages)].tool_calls = None
  /\ lpNotes # <<>> /\ lpNotes[Len(lpNotes)] = "max_iterations"

\* The length of the history when the current input's first request was
\* issued: the history before the input, and the user message.
LengthAtFirstRequest == requestLog[Len(requestLog) - iterations + 1]

\* C35: after a failed turn was caught, the history is the history from
\* before the user's input was appended, also when the failure comes in a
\* later iteration after tool results were appended.
C35_FailedTurnRestoresHistory ==
  [][(lpPc = "stream" /\ lpNotes' = Append(lpNotes, "error")) =>
        messages' = SubSeq(messages, 1, LengthAtFirstRequest - 1)]_vars

\* A turn failed in the second iteration of an input, and the user
\* message, the assistant message and the tool messages are still there.
C35_Witness ==
  /\ lpPc = "prompt"
  /\ iterations = 2
  /\ lpNotes # <<>> /\ lpNotes[Len(lpNotes)] = "error"
  /\ messages[Len(messages)].role = "tool"
  /\ Len(messages) > LengthAtFirstRequest

\* C40: the stream of a turn is released before the next request is
\* issued, so that at most one backend stream is held open.
C40_OneStreamOpen ==
  /\ lpStreams.open <= 1
  /\ lpPc = "stream" => lpStreams.ended = 0

\* A request is in flight while the stream of a turn that faulted is still
\* open in main's scope.
C40_Witness ==
  /\ lpPc = "stream"
  /\ lpStreams.open = 2

\* C36: the list of toOllamaFormat has exactly one descriptor per name of
\* the registry's map, no name twice, and each descriptor describes the
\* definition executeToolCall runs for that name.
C36_DescriptorsMatchRegistry ==
  (rgRegistry # None /\ rgDescriptors # None) =>
     LET map == rgRegistry[1]
         ds == rgDescriptors[1]
     IN /\ {ds[i].name : i \in 1..Len(ds)} = DOMAIN map
        /\ Len(ds) = Cardinality(DOMAIN map)
        /\ \A i \in 1..Len(ds) : ds[i].of = map[ds[i].name]

\* A registry of two definitions under one name has been described: two
\* descriptors of that name, the first for a definition that is never run.
C36_Witness ==
  /\ rgTools = <<calculatorTool, calculatorLenient>>
  /\ rgRegistry # None
  /\ rgDescriptors # None
  /\ Len(rgDescriptors[1]) = 2
  /\ rgDescriptors[1][1].of # rgRegistry[1]["calculator"]

\* The tool_calls events the consumer has received.
ToolCallsEvents == {i \in 1..Len(delivered) : delivered[i].type = "tool_calls"}

\* C37: every tool_calls event carries at least one call, and the
\* ChatResult has toolCalls exactly when a tool_calls event was emitted.
C37_ToolCallsEventsAndResult ==
  /\ \A i \in ToolCallsEvents : Len(delivered[i].toolCalls) > 0
  /\ results # <<>> => (results[1].toolCalls # None <=> ToolCallsEvents # {})

\* A record with an empty tool_calls list was the only one with the field:
\* its event was delivered and the result has no toolCalls.
C37_Witness ==
  /\ results # <<>>
  /\ results[1].toolCalls = None
  /\ \E i \in ToolCallsEvents : delivered[i].toolCalls = <<>>

\* C38: useTextStream delivers no empty string chunk: a record without
\* content produces no chunk, with or without the done flag.
C38_NoEmptyChunk == \A i \in 1..Len(delivered) : delivered[i] # ""

\* A record without content and without the done flag was read, and the
\* consumer was handed the empty string.
C38_Witness ==
  /\ pc = "handle"
  /\ wirePos >= 1
  /\ wire[wirePos].value.content = ""
  /\ ~wire[wirePos].value.done
  /\ delivered[Len(delivered)] = ""

\* A pull on a chat stream that has returned its result: no event, the
\* accumulators as they were, and the same ChatResult again.
AbsorbingPull ==
  (pc = "returned" /\ scope = "running" /\ results' # results) =>
     /\ pc' = "returned"
     /\ delivered' = delivered
     /\ <<textBuffer', thinkingBuffer', toolCalls', usage', pendingEvents', wirePos'>>
          = <<textBuffer, thinkingBuffer, toolCalls, usage, pendingEvents, wirePos>>
     /\ results' = Append(results, results[Len(results)])

\* A pull on a decoder that has signalled end-of-data signals it again and
\* yields no record.
AbsorbingEnd ==
  ndState = "ended" =>
     /\ NDJSONNext(buffer, decPending, readPos, chunks).kind = "done"
     /\ ndState' = "ended"
     /\ ndOut' = ndOut

\* C39: the terminal state of useChatStream is absorbing (a further pull
\* emits no event, changes no accumulator and returns the same ChatResult),
\* and the decoder yields no record after it has signalled end-of-data.
C39_TerminalStateAbsorbing == [][AbsorbingPull /\ AbsorbingEnd]_vars

\* A stream that delivered events and a result with text was pulled again
\* and returned the same result.
C39_Witness ==
  /\ Len(results) = 2
  /\ results[1] = results[2]
  /\ results[1].text # ""
  /\ delivered # <<>>
  /\ pc = "returned"

=============================================================================
